---- MODULE Spec2Model ----
(***************************************************************************)
(* A model of the gunrock sources: the SALSA enactor's iteration driver,   *)
(* the HITS / BC / BFS Problem life cycle (Init, Reset, Extract), the BFS  *)
(* functor run level by level, and the PageRank filter functor.            *)
(* Each part has its own specification over the variables of the module;   *)
(* a specification leaves the variables of the other parts untouched.      *)
(***************************************************************************)
EXTENDS Integers, Sequences, FiniteSets, TLC

(***************************************************************************)
(* Bounds of the model.                                                    *)
(***************************************************************************)
MaxNodes == 2
MaxEdges == 2
MaxCap == 2
MaxIter == 2
MaxResets == 2
MaxBfsNodes == 2
MaxVertices == 4
MaxGraphEdges == 3
MaxPrNodes == 2
RankScale == 2
MaxRank == 3
MaxBfsIterations == 6
MaxGatherNodes == 3
MaxGpus == 2
MaxInitNodes == 3
MaxInitEdges == 3
MaxNegative == 2
IntBits == 4
MaxRmatNodes == 4
MaxCsrNodes == 3
MaxCsrEdges == 3
MaxCondNodes == 3
MaxCalls == 2
MaxMagnitude == 1
MaxCallers == 2
MaxPrEdges == 2
MaxLogNT == 10
MaxTopNodes == 2
MaxResetNodes == 2

(***************************************************************************)
(* cudaError_t values.  Each kind of device call fails with its own code,  *)
(* so that "the first error" can be told from a later one.                 *)
(***************************************************************************)
cudaSuccess == "cudaSuccess"
cudaErrorMemoryAllocation == "cudaErrorMemoryAllocation"
cudaErrorLaunchFailure == "cudaErrorLaunchFailure"
cudaErrorInvalidValue == "cudaErrorInvalidValue"
cudaErrorInvalidDevice == "cudaErrorInvalidDevice"
cudaErrorInitializationError == "cudaErrorInitializationError"
cudaErrorUnknown == "cudaErrorUnknown"

VARIABLES
    \* ---- SALSAEnactor::EnactSALSA ----
    pc,               \* position inside EnactSALSA
    DEBUG,            \* EnactorBase::DEBUG
    INSTRUMENT,       \* template parameter of SALSAEnactor
    max_iteration,    \* argument of EnactSALSA
    nodes,            \* graph_slice->nodes
    edges,            \* graph_slice->edges
    frontier_elements,\* graph_slice->frontier_elements[0..1]: capacity of d_keys[0..1]
    retval,           \* the local retval of EnactSALSA
    queue_length,     \* frontier_attribute.queue_length
    queue_index,      \* frontier_attribute.queue_index
    selector,         \* frontier_attribute.selector
    iteration,        \* enactor_stats.iteration
    d_scanned_edges,  \* TRUE once the cudaMalloc of d_scanned_edges succeeded
    wp_length,        \* the queue length held by work_progress
    dev_err,          \* error left pending on the device by a failed kernel
    first_err,        \* history: code of the first device operation that failed
    ran_after_failure,\* history: an Advance / NormalizeRank ran after first_err
    overflowed,       \* history: some write count exceeded the target capacity
    oob,              \* history: some write landed outside its buffer
    advance_in,       \* history: input length of the last Advance (-1: none yet)
    kernel_launched,  \* history: the last Advance launched its kernel
    d_in_queue,       \* history: index of the d_keys buffer the last Advance read
    d_out_queue,      \* history: index of the d_keys buffer the last Advance wrote
    \* ---- HITSProblem / BCProblem ----
    kind,             \* which Problem this is: "HITS" or "BC"
    num_gpus,         \* HITSProblem::num_gpus / BCProblem::num_gpus
    data_slices,      \* the DataSlice objects created so far: a sequence of
                      \* functions from field name to device pointer
    d_data_slices,    \* d_data_slices[0]
    next_ptr,         \* the last device address handed out by cudaMalloc
    last_call,        \* the member function that returned last
    call_ret,         \* its return value
    failed,           \* the calls made inside it that failed
    init_ok,          \* Init has returned cudaSuccess
    resets,           \* number of Reset calls so far
    host_filled,      \* host buffers Extract has copied into
    \* ---- BFSProblem ----
    MARK_PREDECESSORS,  \* template parameter _MARK_PREDECESSORS
    ENABLE_IDEMPOTENCE, \* template parameter _ENABLE_IDEMPOTENCE
    slice_nodes,      \* graph_slice->nodes
    src,              \* the source vertex the driver starts the run from
    labels,           \* contents of data_slices[0]->labels on the device
    preds,            \* contents of data_slices[0]->preds on the device
    labels_ptr,       \* labels.GetPointer(util::DEVICE)
    preds_ptr,        \* preds.GetPointer(util::DEVICE)
    device_allocs,    \* the last device address handed out to an Array1D
    h_labels,         \* the caller's h_labels buffer
    h_preds,          \* the caller's h_preds buffer
    bfs_call,         \* the BFSProblem member function that returned last
    bfs_retval,       \* its return value
    bfs_init_ok,      \* BFSProblem::Init has returned cudaSuccess
    reset_ok,         \* the last BFSProblem::Reset returned cudaSuccess
    bfs_resets,       \* number of BFSProblem::Reset calls so far
    \* ---- a BFS run with BFSFunctor ----
    graph_edges,      \* the edges <<source, destination>> of the CSR graph
    frontier,         \* the vertices of the current input frontier
    items,            \* the per-edge work items of the Advance in progress
    out_queue,        \* the vertices the Advance has written to its output
    bfs_pc,           \* position of the run: idle, seed, advance, edges, done
    \* ---- PRFunctor under Filter ----
    d_rank_curr,      \* problem->d_rank_curr
    d_rank_next,      \* problem->d_rank_next
    d_delta,          \* problem->d_delta[0]
    d_threshold,      \* problem->d_threshold[0]
    rank_before,      \* history: d_rank_next when the Filter was launched
    pr_todo,          \* vertices of the input frontier not yet looked at
    pr_out,           \* the output frontier of the Filter
    pr_pc,            \* position of the Filter: idle, filter, done
    \* ---- an idempotent BFS run ----
    visited_mask,     \* the vertices whose bit is set in visited_mask
    bfs_iteration,    \* enactor_stats.iteration of the run
    filter_items,     \* the per-element work items of the Filter in progress
    marked_before,    \* history: visited_mask when the Filter was launched
    \* ---- BFSProblem::Extract over several GPUs ----
    partition_tables,  \* partition_tables[0]: global vertex -> GPU
    convertion_tables, \* convertion_tables[0]: global vertex -> index in the slice
    gpu_labels,        \* data_slices[gpu]->labels, GPU -> array
    gpu_preds,         \* data_slices[gpu]->preds, GPU -> array
    \* ---- Init of HITSProblem / BCProblem with the graph's sizes ----
    init_kind,        \* HITS or BC
    csr_nodes,        \* graph.nodes
    csr_edges,        \* graph.edges
    init_retval,      \* what Init returned
    malloc_attempts,  \* the cudaMalloc calls Init has made
    slices_made,      \* the data slices Init has created
    size_pc,          \* start, done
    \* ---- BuildRmatGraph ----
    rmat_nodes,       \* nodes
    rmat_edges,       \* edges
    undirected,       \* undirected
    directed_edges,   \* directed_edges
    coo,              \* the COO array: none, NULL, allocated, freed
    mallocs,          \* the malloc calls made
    coo_i,            \* i of the loop over the edges
    rmat_u,           \* u
    rmat_v,           \* v
    rmat_step,        \* step
    coo_row,          \* coo[i].row of the edge written last
    coo_col,          \* coo[i].col of the edge written last
    graph_written,    \* FromCoo has filled the output graph
    rmat_ret,         \* what BuildRmatGraph returned
    rmat_pc,          \* entry, loop, partition, from_coo, returned, crashed
    \* ---- graphio::RandomNode ----
    rnd_num_nodes,    \* num_nodes
    node_id,          \* the bits RandomBits put into node_id
    rnd_result,       \* what RandomNode returned
    rnd_pc,           \* call, returned
    \* ---- binary_search called by build_topk_subgraph ----
    row_offsets,      \* graph_original.row_offsets
    column_indices,   \* graph_original.column_indices
    search_row,       \* node_ids[i], the row searched
    search_val,       \* val = node_ids[j]
    search_left,      \* left
    search_right,     \* right
    search_return,    \* what binary_search returned
    search_reads,     \* history: the indices of arr that were read
    search_pc,        \* call, loop, returned
    \* ---- concurrent CondEdge calls ----
    labels_before,    \* history: labels when the calls were launched
    \* ---- atomicAdd(double *, double) ----
    cell,             \* *addr, the double at the address
    cell_init,        \* history: the cell before any call
    callers,          \* per call: val, old, assumed, position, and its history
    order,            \* history: the callers in the order their additions took effect
    \* ---- PRFunctor::ApplyEdge under one Advance ----
    d_degrees,        \* problem->d_degrees
    pr_calls,         \* per applied edge: position of the call and its addend
    \* ---- util::BinarySearch<NT> ----
    bs_nt,            \* NT
    bs_split,         \* the array queue: the number of its entries that are 0
    bs_key,           \* i
    bs_mid,           \* mid
    bs_steps,         \* the distances of the `mid +=` lines still to run
    bs_reads,         \* history: the indices of queue that were read
    bs_return,        \* what BinarySearch returned
    bs_pc,            \* call, search, returned
    \* ---- build_topk_subgraph ----
    node_ids,         \* node_ids[0 .. top_nodes - 1]
    top_nodes,        \* top_nodes
    tk_i,             \* i of the outer loop
    tk_j,             \* j of the inner loop
    search_count,     \* search_count
    sub_row_offsets,  \* the vector sub_row_offsets
    sub_col_indices,  \* the vector sub_col_indices
    subgraph,         \* *subgraph as its reader finds it
    tk_pc,            \* start, loop, searching, returned
    \* ---- run_topk ----
    rt_nodes,         \* graph_original.nodes
    rt_top_nodes,     \* top_nodes
    rt_next,          \* position in run_topk: 0 the cut of top_nodes, then the stages
    rt_log,           \* history: the stages that ran, in order
    rt_retvals,       \* history: what the checked stages returned
    \* ---- HITSProblem / BCProblem: slice arrays and Reset's writes ----
    sl_kind,          \* "HITS" or "BC"
    sl_num_gpus,      \* num_gpus
    sl_nodes,         \* nodes
    sl_src,           \* the src Reset was called with
    gpu_idx,          \* gpu_idx: << >> while the pointer is unassigned
    sl_data_slices,   \* data_slices: per element "garbage" or "slice"
    sl_d_data_slices, \* d_data_slices: per element "garbage" or "slice"
    sl_allocated,     \* the arrays of data_slices[0] that Init allocated
    sl_outside,       \* history: elements written outside the two pointer arrays
    sl_writes,        \* history: the <<array, index>> elements Reset wrote
    sl_deref,         \* history: the unassigned slices Reset read through
    sl_call,          \* the last call made
    sl_ret            \* what it returned

salsaVars == <<pc, DEBUG, INSTRUMENT, max_iteration, nodes, edges,
               frontier_elements, retval, queue_length, queue_index, selector,
               iteration, d_scanned_edges, wp_length, dev_err, first_err,
               ran_after_failure, overflowed, oob, advance_in, kernel_launched,
               d_in_queue, d_out_queue>>

problemVars == <<kind, num_gpus, data_slices, d_data_slices, next_ptr,
                 last_call, call_ret, failed, init_ok, resets, host_filled>>

bfsProblemVars == <<MARK_PREDECESSORS, ENABLE_IDEMPOTENCE, slice_nodes, src,
                    labels, preds, labels_ptr, preds_ptr, device_allocs,
                    h_labels, h_preds, bfs_call, bfs_retval, bfs_init_ok,
                    reset_ok, bfs_resets>>

bfsRunVars == <<graph_edges, frontier, items, out_queue, bfs_pc>>

prVars == <<d_rank_curr, d_rank_next, d_delta, d_threshold, rank_before,
            pr_todo, pr_out, pr_pc>>

idemVars == <<visited_mask, bfs_iteration, filter_items, marked_before>>

gatherVars == <<partition_tables, convertion_tables, gpu_labels, gpu_preds>>

sizeVars == <<init_kind, csr_nodes, csr_edges, init_retval, malloc_attempts,
             slices_made, size_pc>>

rmatVars == <<rmat_nodes, rmat_edges, undirected, directed_edges, coo, mallocs,
             coo_i, rmat_u, rmat_v, rmat_step, coo_row, coo_col, graph_written,
             rmat_ret, rmat_pc>>

randomVars == <<rnd_num_nodes, node_id, rnd_result, rnd_pc>>

searchVars == <<row_offsets, column_indices, search_row, search_val, search_left,
               search_right, search_return, search_reads, search_pc>>

condVars == <<labels_before>>

atomicVars == <<cell, cell_init, callers, order>>

prAdvanceVars == <<d_degrees, pr_calls>>

utilSearchVars == <<bs_nt, bs_split, bs_key, bs_mid, bs_steps, bs_reads, bs_return,
    bs_pc>>

topkVars == <<node_ids, top_nodes, tk_i, tk_j, search_count, sub_row_offsets,
    sub_col_indices, subgraph, tk_pc>>

runTopkVars == <<rt_nodes, rt_top_nodes, rt_next, rt_log, rt_retvals>>

slicesVars == <<sl_kind, sl_num_gpus, sl_nodes, sl_src, gpu_idx, sl_data_slices, sl_d_data_slices, sl_allocated, sl_outside, sl_writes, sl_deref, sl_call, sl_ret>>

restVars == <<slicesVars, runTopkVars, topkVars, utilSearchVars, prAdvanceVars, atomicVars, condVars, searchVars, randomVars, rmatVars, sizeVars, gatherVars, idemVars>>

otherThanAtomicAdd == <<salsaVars, problemVars, bfsProblemVars, bfsRunVars, prVars,
    idemVars, gatherVars, sizeVars, rmatVars, randomVars, searchVars, condVars,
    prAdvanceVars,
    utilSearchVars,
    topkVars,
    runTopkVars,
    slicesVars>>

otherThanPrAdvance == <<salsaVars, problemVars, bfsProblemVars, bfsRunVars,
    idemVars, gatherVars, sizeVars, rmatVars, randomVars, searchVars, condVars,
    atomicVars,
    utilSearchVars,
    topkVars,
    runTopkVars,
    slicesVars>>

otherThanUtilSearch == <<salsaVars, problemVars, bfsProblemVars, bfsRunVars, prVars,
    idemVars, gatherVars, sizeVars, rmatVars, randomVars, searchVars, condVars,
    atomicVars, prAdvanceVars,
    topkVars,
    runTopkVars,
    slicesVars>>

otherThanTopk == <<salsaVars, problemVars, bfsProblemVars, bfsRunVars, prVars,
    idemVars, gatherVars, sizeVars, rmatVars, randomVars, condVars,
    atomicVars, prAdvanceVars, utilSearchVars,
    runTopkVars,
    slicesVars>>

otherThanRunTopk == <<salsaVars, problemVars, bfsProblemVars, bfsRunVars, prVars,
    idemVars, gatherVars, sizeVars, rmatVars, randomVars, searchVars, condVars,
    atomicVars, prAdvanceVars, utilSearchVars, topkVars,
    slicesVars>>

otherThanSlices == <<salsaVars, problemVars, bfsProblemVars, bfsRunVars, prVars,
    idemVars, gatherVars, sizeVars, rmatVars, randomVars, searchVars, condVars,
    atomicVars, prAdvanceVars, utilSearchVars, topkVars, runTopkVars>>

vars == <<salsaVars, problemVars, bfsProblemVars, bfsRunVars, prVars, restVars>>

otherThanSalsa == <<problemVars, bfsProblemVars, bfsRunVars, prVars, restVars>>
otherThanProblem == <<salsaVars, bfsProblemVars, bfsRunVars, prVars, restVars>>
otherThanBfsProblem == <<salsaVars, problemVars, bfsRunVars, prVars, restVars>>
otherThanPr == <<salsaVars, problemVars, bfsProblemVars, bfsRunVars, restVars>>
otherThanBfsRun == <<salsaVars, problemVars, prVars, restVars, MARK_PREDECESSORS,
                     ENABLE_IDEMPOTENCE, slice_nodes, src, labels_ptr,
                     preds_ptr, device_allocs, h_labels, h_preds, bfs_call,
                     bfs_retval, bfs_init_ok, reset_ok, bfs_resets>>

(***************************************************************************)
(*                    SALSAEnactor::EnactSALSA                             *)
(***************************************************************************)
Forward == {"h_forward", "a_forward"}
Backward == {"h_backward", "a_backward"}

\* History: remember the code of the first device operation that failed.
NoteFailure(code) ==
    first_err' = IF first_err = cudaSuccess THEN code ELSE first_err

\* History: an Advance or NormalizeRank step is being executed now.
NoteStep ==
    ran_after_failure' = (ran_after_failure \/ first_err # cudaSuccess)

\* The state of EnactSALSA before it is called (or when it is not part of the run).
SalsaIdle ==
    /\ pc = "entry"
    /\ DEBUG = FALSE
    /\ INSTRUMENT = FALSE
    /\ max_iteration = 0
    /\ nodes = 0
    /\ edges = 0
    /\ frontier_elements = [b \in 0..1 |-> 0]
    /\ retval = cudaSuccess
    /\ queue_length = 0
    /\ queue_index = 0
    /\ selector = 0
    /\ iteration = 0
    /\ d_scanned_edges = FALSE
    /\ wp_length = 0
    /\ dev_err = cudaSuccess
    /\ first_err = cudaSuccess
    /\ ran_after_failure = FALSE
    /\ overflowed = FALSE
    /\ oob = FALSE
    /\ advance_in = -1
    /\ kernel_launched = FALSE
    /\ d_in_queue = -1
    /\ d_out_queue = -1

\* A Problem object on which nothing has been called yet.
ProblemIdle ==
    /\ kind = "HITS"
    /\ num_gpus = 0
    /\ data_slices = << >>
    /\ d_data_slices = 0
    /\ next_ptr = 0
    /\ last_call = "none"
    /\ call_ret = cudaSuccess
    /\ failed = {}
    /\ init_ok = FALSE
    /\ resets = 0
    /\ host_filled = {}

\* A BFSProblem object on which nothing has been called yet.
BfsProblemIdle ==
    /\ MARK_PREDECESSORS = FALSE
    /\ ENABLE_IDEMPOTENCE = FALSE
    /\ slice_nodes = 0
    /\ src = 0
    /\ labels = << >>
    /\ preds = << >>
    /\ labels_ptr = 0
    /\ preds_ptr = 0
    /\ device_allocs = 0
    /\ h_labels = << >>
    /\ h_preds = << >>
    /\ bfs_call = "none"
    /\ bfs_retval = cudaSuccess
    /\ bfs_init_ok = FALSE
    /\ reset_ok = FALSE
    /\ bfs_resets = 0

\* No BFS run has been started.
BfsRunIdle ==
    /\ graph_edges = {}
    /\ frontier = {}
    /\ items = << >>
    /\ out_queue = {}
    /\ bfs_pc = "idle"

\* No Filter with PRFunctor has been set up.
PrIdle ==
    /\ d_rank_curr = << >>
    /\ d_rank_next = << >>
    /\ d_delta = 0
    /\ d_threshold = 0
    /\ rank_before = << >>
    /\ pr_todo = {}
    /\ pr_out = {}
    /\ pr_pc = "idle"

\* No idempotent BFS run has been started.
IdemIdle ==
    /\ visited_mask = {}
    /\ bfs_iteration = 0
    /\ filter_items = << >>
    /\ marked_before = {}

\* No partitioned BFS problem has been set up.
GatherIdle ==
    /\ partition_tables = << >>
    /\ convertion_tables = << >>
    /\ gpu_labels = << >>
    /\ gpu_preds = << >>

\* No Init with graph sizes is under way.
SizesIdle ==
    /\ init_kind = "none"
    /\ csr_nodes = 0
    /\ csr_edges = 0
    /\ init_retval = cudaSuccess
    /\ malloc_attempts = 0
    /\ slices_made = 0
    /\ size_pc = "idle"

\* BuildRmatGraph has not been called.
RmatIdle ==
    /\ rmat_nodes = 0
    /\ rmat_edges = 0
    /\ undirected = FALSE
    /\ directed_edges = 0
    /\ coo = "none"
    /\ mallocs = 0
    /\ coo_i = 0
    /\ rmat_u = 0
    /\ rmat_v = 0
    /\ rmat_step = 0
    /\ coo_row = 0
    /\ coo_col = 0
    /\ graph_written = FALSE
    /\ rmat_ret = 0
    /\ rmat_pc = "idle"

\* RandomNode has not been called.
RandomIdle ==
    /\ rnd_num_nodes = 1
    /\ node_id = 0
    /\ rnd_result = 0
    /\ rnd_pc = "idle"

\* binary_search has not been called.
SearchIdle ==
    /\ row_offsets = << >>
    /\ column_indices = << >>
    /\ search_row = 0
    /\ search_val = 0
    /\ search_left = 0
    /\ search_right = 0
    /\ search_return = 0
    /\ search_reads = {}
    /\ search_pc = "idle"

\* No set of CondEdge calls has been launched.
CondIdle ==
    /\ labels_before = << >>

\* atomicAdd on a double has not been called.
AtomicAddIdle ==
    /\ cell = 0
    /\ cell_init = 0
    /\ callers = << >>
    /\ order = << >>

\* No Advance with PRFunctor has been launched.
PrAdvanceIdle ==
    /\ d_degrees = << >>
    /\ pr_calls = << >>

\* util::BinarySearch has not been called.
UtilSearchIdle ==
    /\ bs_nt = 0
    /\ bs_split = 0
    /\ bs_key = 0
    /\ bs_mid = 0
    /\ bs_steps = << >>
    /\ bs_reads = {}
    /\ bs_return = 0
    /\ bs_pc = "idle"

\* build_topk_subgraph has not been called.
TopkIdle ==
    /\ node_ids = << >>
    /\ top_nodes = 0
    /\ tk_i = 0
    /\ tk_j = 0
    /\ search_count = 0
    /\ sub_row_offsets = << >>
    /\ sub_col_indices = << >>
    /\ subgraph = << >>
    /\ tk_pc = "idle"

\* run_topk has not been called.
RunTopkIdle ==
    /\ rt_nodes = 0
    /\ rt_top_nodes = 0
    /\ rt_next = 0
    /\ rt_log = << >>
    /\ rt_retvals = << >>

\* A default-constructed Problem (lines 93 and 594): no slices, nothing called.
SlicesIdle ==
    /\ sl_kind = "HITS"
    /\ sl_num_gpus = 0
    /\ sl_nodes = 0
    /\ sl_src = 0
    /\ gpu_idx = << >>
    /\ sl_data_slices = << >>
    /\ sl_d_data_slices = << >>
    /\ sl_allocated = {}
    /\ sl_outside = {}
    /\ sl_writes = {}
    /\ sl_deref = {}
    /\ sl_call = "none"
    /\ sl_ret = cudaSuccess

\* The parts of the model that come after the PageRank filter are not in use.
RestIdle ==
    /\ SlicesIdle
    /\ RunTopkIdle
    /\ TopkIdle
    /\ UtilSearchIdle
    /\ PrAdvanceIdle
    /\ AtomicAddIdle
    /\ CondIdle
    /\ SearchIdle
    /\ RandomIdle
    /\ RmatIdle
    /\ SizesIdle
    /\ GatherIdle
    /\ IdemIdle

SalsaInit ==
    /\ ProblemIdle
    /\ BfsProblemIdle
    /\ BfsRunIdle
    /\ PrIdle
    /\ RestIdle
    /\ pc = "entry"
    /\ DEBUG \in BOOLEAN
    /\ INSTRUMENT \in BOOLEAN
    /\ max_iteration \in 0..MaxIter
    /\ nodes \in 0..MaxNodes
    /\ edges \in 0..MaxEdges
    /\ frontier_elements \in [0..1 -> 0..MaxCap]
    /\ retval = cudaSuccess
    /\ queue_length = 0
    /\ queue_index = 0
    /\ selector = 0
    /\ iteration = 0
    /\ d_scanned_edges = FALSE
    /\ wp_length = 0
    /\ dev_err = cudaSuccess
    /\ first_err = cudaSuccess
    /\ ran_after_failure = FALSE
    /\ overflowed = FALSE
    /\ oob = FALSE
    /\ advance_in = -1
    /\ kernel_launched = FALSE
    /\ d_in_queue = -1
    /\ d_out_queue = -1

\* Lines 207-223: Setup(problem) always succeeds; EnactorBase::Setup resets the
\* statistics and may fail; then the frontier attributes are seeded.
EnactSetup ==
    /\ pc = "entry"
    /\ \E ok \in BOOLEAN :
         IF ok
         THEN /\ iteration' = 0
              /\ queue_length' = nodes
              /\ queue_index' = 0
              /\ selector' = 0
              /\ pc' = "malloc"
              /\ UNCHANGED <<retval, first_err>>
         ELSE /\ retval' = cudaErrorInitializationError
              /\ NoteFailure(cudaErrorInitializationError)
              /\ pc' = "exit"
              /\ UNCHANGED <<iteration, queue_length, queue_index, selector>>
    /\ UNCHANGED otherThanSalsa
    /\ UNCHANGED <<advance_in, kernel_launched, d_in_queue, d_out_queue>>
    /\ UNCHANGED <<DEBUG, INSTRUMENT, max_iteration, nodes, edges,
                   frontier_elements, d_scanned_edges, wp_length, dev_err,
                   ran_after_failure, overflowed, oob>>

\* Lines 225-230: the LB policy allocates d_scanned_edges; a failure returns at once.
MallocScannedEdges ==
    /\ pc = "malloc"
    /\ \E ok \in BOOLEAN :
         IF ok
         THEN /\ d_scanned_edges' = TRUE
              /\ pc' = "fwd_fill"
              /\ UNCHANGED <<retval, first_err>>
         ELSE /\ retval' = cudaErrorMemoryAllocation
              /\ NoteFailure(cudaErrorMemoryAllocation)
              /\ pc' = "returned"
              /\ UNCHANGED d_scanned_edges
    /\ UNCHANGED otherThanSalsa
    /\ UNCHANGED <<advance_in, kernel_launched, d_in_queue, d_out_queue>>
    /\ UNCHANGED <<DEBUG, INSTRUMENT, max_iteration, nodes, edges,
                   frontier_elements, queue_length, queue_index, selector,
                   iteration, wp_length, dev_err, ran_after_failure,
                   overflowed, oob>>

\* Lines 244 and 321-331: MemsetIdxKernel writes the identity 0..len-1 into
\* d_keys[selector]; it is given the length only, never the capacity.
MemsetIdxLength == IF pc = "fwd_fill" THEN nodes ELSE edges

MemsetIdx ==
    /\ pc \in {"fwd_fill", "bwd_fill"}
    /\ overflowed' = (overflowed \/ MemsetIdxLength > frontier_elements[selector])
    /\ oob' = (oob \/ MemsetIdxLength > frontier_elements[selector])
    /\ queue_length' = IF pc = "bwd_fill" THEN edges ELSE queue_length
    /\ pc' = IF pc = "fwd_fill" THEN "fwd_setlen" ELSE "bwd_setlen"
    /\ UNCHANGED otherThanSalsa
    /\ UNCHANGED <<advance_in, kernel_launched, d_in_queue, d_out_queue>>
    /\ UNCHANGED <<DEBUG, INSTRUMENT, max_iteration, nodes, edges,
                   frontier_elements, retval, queue_index, selector, iteration,
                   d_scanned_edges, wp_length, dev_err, first_err,
                   ran_after_failure>>

\* Lines 246 and 332: work_progress.SetQueueLength; a failure breaks out.
SetQueueLength ==
    /\ pc \in {"fwd_setlen", "bwd_setlen"}
    /\ \E ok \in BOOLEAN :
         IF ok
         THEN /\ wp_length' = IF pc = "fwd_setlen" THEN nodes ELSE queue_length
              /\ pc' = IF pc = "fwd_setlen" THEN "h_forward" ELSE "h_backward"
              /\ UNCHANGED <<retval, first_err>>
         ELSE /\ retval' = cudaErrorInvalidValue
              /\ NoteFailure(cudaErrorInvalidValue)
              /\ pc' = "exit"
              /\ UNCHANGED wp_length
    /\ UNCHANGED otherThanSalsa
    /\ UNCHANGED <<advance_in, kernel_launched, d_in_queue, d_out_queue>>
    /\ UNCHANGED <<DEBUG, INSTRUMENT, max_iteration, nodes, edges,
                   frontier_elements, queue_length, queue_index, selector,
                   iteration, d_scanned_edges, dev_err, ran_after_failure,
                   overflowed, oob>>

\* The max_out_queue argument EnactSALSA hands to LaunchKernel: the capacity of
\* the output buffer in the forward phase (lines 265-266, 300-301), but
\* graph_slice->edges in the backward phase (lines 351-352, 392-393).
MaxOutQueue == IF pc \in Forward THEN frontier_elements[1 - selector] ELSE edges

AfterAdvance ==
    CASE pc = "h_forward" -> "a_forward"
      [] pc = "a_forward" -> "fwd_done"
      [] pc = "h_backward" -> "normalize_h"
      [] pc = "a_backward" -> "get_length"

\* The mutant of ShortCircuits: the kernel is launched whatever the length.
ShortCircuitsNever(len) == FALSE

\* The Advance operator launches no kernel for an input frontier of length 0.
ShortCircuits(len) == len = 0

\* The mutant of Xor1: the same buffer again.
XorNone(s) == s

\* selector^1 (lines 258, 293, 344, 385).
Xor1(s) == IF s % 2 = 0 THEN s + 1 ELSE s - 1

\* The Advance operator: reads d_keys[selector], writes out entries into
\* d_keys[selector^1], checks out against max_out_queue, then updates the
\* length and toggles the selector.  An empty input launches no kernel.
LaunchKernel(out, fault) ==
    /\ advance_in' = queue_length
    /\ kernel_launched' = ~ShortCircuits(queue_length)
    /\ d_in_queue' = selector
    /\ d_out_queue' = Xor1(selector)
    /\ overflowed' = (overflowed \/ out > frontier_elements[1 - selector])
    /\ oob' = (oob \/ (out <= MaxOutQueue /\ out > frontier_elements[1 - selector]))
    /\ queue_length' = out
    /\ wp_length' = out
    /\ selector' = 1 - selector
    /\ dev_err' = IF fault /\ dev_err = cudaSuccess
                  THEN cudaErrorLaunchFailure ELSE dev_err

\* Lines 248-272, 283-306, 334-358, 375-399: LaunchKernel, whose outcome is not
\* looked at, followed by `DEBUG && (retval = cudaThreadSynchronize())`.
Advance ==
    /\ pc \in Forward \cup Backward
    /\ \E out \in 0..edges, fault \in BOOLEAN :
         /\ ShortCircuits(queue_length) => (out = 0 /\ ~fault)
         /\ LaunchKernel(out, fault)
         /\ IF fault THEN NoteFailure(cudaErrorLaunchFailure)
                     ELSE UNCHANGED first_err
    /\ NoteStep
    /\ IF DEBUG
       THEN /\ retval' = dev_err'
            /\ pc' = IF dev_err' # cudaSuccess THEN "exit" ELSE AfterAdvance
       ELSE /\ UNCHANGED retval
            /\ pc' = AfterAdvance
    /\ UNCHANGED otherThanSalsa
    /\ UNCHANGED <<DEBUG, INSTRUMENT, max_iteration, nodes, edges,
                   frontier_elements, queue_index, iteration, d_scanned_edges>>

\* Line 312: the backward phase starts from an edge frontier.
LoopEntry ==
    /\ pc = "fwd_done"
    /\ queue_length' = edges
    /\ pc' = "bwd_fill"
    /\ UNCHANGED otherThanSalsa
    /\ UNCHANGED <<advance_in, kernel_launched, d_in_queue, d_out_queue>>
    /\ UNCHANGED <<DEBUG, INSTRUMENT, max_iteration, nodes, edges,
                   frontier_elements, retval, queue_index, selector, iteration,
                   d_scanned_edges, wp_length, dev_err, first_err,
                   ran_after_failure, overflowed, oob>>

\* Lines 94-116, 364, 413: NormalizeRank launches two kernels on the rank arrays.
NormalizeRank ==
    /\ pc \in {"normalize_h", "normalize_a"}
    /\ NoteStep
    /\ pc' = IF pc = "normalize_h" THEN "a_backward" ELSE "increment"
    /\ UNCHANGED otherThanSalsa
    /\ UNCHANGED <<advance_in, kernel_launched, d_in_queue, d_out_queue>>
    /\ UNCHANGED <<DEBUG, INSTRUMENT, max_iteration, nodes, edges,
                   frontier_elements, retval, queue_length, queue_index,
                   selector, iteration, d_scanned_edges, wp_length, dev_err,
                   first_err, overflowed, oob>>

\* Lines 401-404: only in DEBUG mode the queue length is read back.
GetQueueLength ==
    /\ pc = "get_length"
    /\ IF DEBUG
       THEN \E ok \in BOOLEAN :
              IF ok
              THEN /\ queue_length' = wp_length
                   /\ pc' = "accumulate"
                   /\ UNCHANGED <<retval, first_err>>
              ELSE /\ retval' = cudaErrorInvalidValue
                   /\ NoteFailure(cudaErrorInvalidValue)
                   /\ pc' = "exit"
                   /\ UNCHANGED queue_length
       ELSE /\ pc' = "accumulate"
            /\ UNCHANGED <<retval, first_err, queue_length>>
    /\ UNCHANGED otherThanSalsa
    /\ UNCHANGED <<advance_in, kernel_launched, d_in_queue, d_out_queue>>
    /\ UNCHANGED <<DEBUG, INSTRUMENT, max_iteration, nodes, edges,
                   frontier_elements, queue_index, selector, iteration,
                   d_scanned_edges, wp_length, dev_err, ran_after_failure,
                   overflowed, oob>>

\* Lines 406-411: only with INSTRUMENT the kernel statistics are accumulated.
Accumulate ==
    /\ pc = "accumulate"
    /\ IF INSTRUMENT
       THEN \E ok \in BOOLEAN :
              IF ok
              THEN /\ pc' = "normalize_a"
                   /\ UNCHANGED <<retval, first_err>>
              ELSE /\ retval' = cudaErrorUnknown
                   /\ NoteFailure(cudaErrorUnknown)
                   /\ pc' = "exit"
       ELSE /\ pc' = "normalize_a"
            /\ UNCHANGED <<retval, first_err>>
    /\ UNCHANGED otherThanSalsa
    /\ UNCHANGED <<advance_in, kernel_launched, d_in_queue, d_out_queue>>
    /\ UNCHANGED <<DEBUG, INSTRUMENT, max_iteration, nodes, edges,
                   frontier_elements, queue_length, queue_index, selector,
                   iteration, d_scanned_edges, wp_length, dev_err,
                   ran_after_failure, overflowed, oob>>

\* Lines 416-422: the only test that ends the while (true) loop without an error.
IterationStep ==
    /\ pc = "increment"
    /\ iteration' = iteration + 1
    /\ pc' = IF iteration + 1 >= max_iteration THEN "exit" ELSE "bwd_fill"
    /\ UNCHANGED otherThanSalsa
    /\ UNCHANGED <<advance_in, kernel_launched, d_in_queue, d_out_queue>>
    /\ UNCHANGED <<DEBUG, INSTRUMENT, max_iteration, nodes, edges,
                   frontier_elements, retval, queue_length, queue_index,
                   selector, d_scanned_edges, wp_length, dev_err, first_err,
                   ran_after_failure, overflowed, oob>>

\* Lines 424-431: no overflow check ("Check overflow ignored here"); return retval.
EnactReturn ==
    /\ pc = "exit"
    /\ pc' = "returned"
    /\ UNCHANGED otherThanSalsa
    /\ UNCHANGED <<advance_in, kernel_launched, d_in_queue, d_out_queue>>
    /\ UNCHANGED <<DEBUG, INSTRUMENT, max_iteration, nodes, edges,
                   frontier_elements, retval, queue_length, queue_index,
                   selector, iteration, d_scanned_edges, wp_length, dev_err,
                   first_err, ran_after_failure, overflowed, oob>>

SalsaNext ==
    \/ EnactSetup
    \/ MallocScannedEdges
    \/ MemsetIdx
    \/ SetQueueLength
    \/ Advance
    \/ LoopEntry
    \/ NormalizeRank
    \/ GetQueueLength
    \/ Accumulate
    \/ IterationStep
    \/ EnactReturn

SpecSalsa == SalsaInit /\ [][SalsaNext]_vars

(***************************************************************************)
(* Claims about EnactSALSA, checked under SpecSalsa.                       *)
(***************************************************************************)

\* C1: whenever EnactSALSA returns cudaSuccess, for every max_iteration >= 0
\* (0 included), the frontier is empty or enactor_stats.iteration equals
\* max_iteration.
C1_EmptyOrIterationBound ==
    (pc = "returned" /\ retval = cudaSuccess)
        => (queue_length = 0 \/ iteration = max_iteration)

\* C2: once a device operation has failed, no later Advance or NormalizeRank
\* step is executed, and EnactSALSA returns the code of that first failure, in
\* DEBUG mode and without it.
C2_FirstFailureAborts ==
    first_err # cudaSuccess =>
        /\ ~ran_after_failure
        /\ (pc = "returned" => retval = first_err)

\* C3: when more elements are written into a frontier queue than it can hold,
\* no write lands outside the buffer and EnactSALSA does not return cudaSuccess.
C3_OverflowDetected ==
    /\ ~oob
    /\ (pc = "returned" /\ overflowed) => retval # cudaSuccess

C17_StopsAtFirstBoundary ==
    [][pc = "increment" =>
          (pc' = "exit" <=> (queue_length = 0 \/ iteration' >= max_iteration))]_vars

\* EnactSALSA is sequential host code: a step that can be taken is taken.
SpecSalsaFair == SalsaInit /\ [][SalsaNext]_vars /\ WF_vars(SalsaNext)

\* Under SpecSalsaFair every run of EnactSALSA returns.
EnactEventuallyReturns == <>(pc = "returned")

\* C20: selector is 0 or 1, and every Advance of EnactSALSA reads one buffer of
\* the d_keys pair and writes the other.
C20_PingPongBuffersDiffer ==
    /\ selector \in {0, 1}
    /\ advance_in # -1 =>
          /\ d_in_queue \in {0, 1}
          /\ d_out_queue \in {0, 1}
          /\ d_in_queue # d_out_queue

\* An Advance of the backward phase has read d_keys[1] and written d_keys[0].
C20_Witness ==
    /\ pc \in {"normalize_h", "get_length"}
    /\ d_in_queue = 1
    /\ d_out_queue = 0
    /\ kernel_launched

(***************************************************************************)
(*                    HITSProblem and BCProblem                            *)
(***************************************************************************)
NULL == 0
\* The value of a pointer that was never assigned may be null or not.
Garbage == NULL - 1

\* The DataSlice arrays in the order Init allocates them.
InitOrder ==
    [HITS |-> <<"d_hrank_curr", "d_arank_curr", "d_hrank_next", "d_arank_next",
                "d_in_degrees", "d_out_degrees", "d_delta", "d_src_node">>,
     BC   |-> <<"d_labels", "d_preds", "d_bc_values", "d_ebc_values",
                "d_sigmas", "d_forward_output", "d_src_node", "d_deltas">>]

\* The DataSlice arrays in the order Reset looks at them.
ResetOrder ==
    [HITS |-> <<"d_hrank_curr", "d_arank_curr", "d_hrank_next", "d_arank_next",
                "d_in_degrees", "d_out_degrees", "d_delta", "d_src_node">>,
     BC   |-> <<"d_labels", "d_preds", "d_bc_values", "d_ebc_values",
                "d_deltas", "d_sigmas", "d_forward_output", "d_src_node">>]

\* The members of struct DataSlice.
Fields(k) ==
    {InitOrder[k][i] : i \in 1..Len(InitOrder[k])}
        \cup (IF k = "HITS" THEN {"d_labels"} ELSE {})

Index(seq, x) == CHOOSE i \in 1..Len(seq) : seq[i] = x

\* The checked calls of Init, in order: cudaGetDevice, the cudaMalloc of
\* d_data_slices[0], then one cudaMalloc per array.
InitCalls(k) ==
    << <<"cudaGetDevice", "gpu">>, <<"cudaMalloc", "d_data_slices">> >>
        \o [i \in 1..Len(InitOrder[k]) |-> <<"cudaMalloc", InitOrder[k][i]>>]

\* data_slices[0] after Init whose f-th checked call failed (0: none did); g is
\* what `new DataSlice` left in the members.
InitSlice(k, g, f) ==
    [fld \in Fields(k) |->
        IF k = "HITS" /\ fld = "d_labels"
        THEN (IF f = 0 THEN NULL ELSE g[fld])
        ELSE IF f = 0 \/ Index(InitOrder[k], fld) + 2 < f
             THEN next_ptr + 1 + Index(InitOrder[k], fld)
             ELSE g[fld]]

\* Init: the result of ProblemBase::Init is dropped; cudaGetDevice failing breaks
\* out before the slice exists; a failing cudaMalloc returns at once.
ProblemInit ==
    /\ last_call = "none"
    /\ \E k \in {"HITS", "BC"}, base_ok \in BOOLEAN, gd \in {NULL, Garbage} :
       \E g \in [Fields(k) -> {NULL, Garbage}], f \in 0..Len(InitCalls(k)) :
         /\ kind' = k
         /\ num_gpus' = 1
         /\ data_slices' = IF f = 1 THEN << >> ELSE << InitSlice(k, g, f) >>
         /\ d_data_slices' = IF f = 0 \/ f > 2 THEN next_ptr + 1 ELSE gd
         /\ next_ptr' = next_ptr + (IF f = 0 THEN Len(InitCalls(k)) - 1
                                    ELSE IF f <= 2 THEN 0 ELSE f - 2)
         /\ call_ret' = IF f = 0 THEN cudaSuccess
                        ELSE IF f = 1 THEN cudaErrorInvalidDevice
                        ELSE cudaErrorMemoryAllocation
         /\ failed' = (IF base_ok THEN {} ELSE {<<"ProblemBase", "Init">>})
                        \cup (IF f = 0 THEN {} ELSE {InitCalls(k)[f]})
         /\ init_ok' = (f = 0)
    /\ last_call' = "Init"
    /\ UNCHANGED <<resets, host_filled>>
    /\ UNCHANGED otherThanProblem

\* A Reset that allocates every array again, whatever its pointer holds.
NeedsAllocAlways(ptr) == TRUE

\* `if (!data_slices[gpu]->d_x)`: Reset allocates an array only when its pointer is null.
NeedsAlloc(ptr) == ptr = NULL

\* The arrays Reset allocates for slice s, in order.
ResetMallocs(k, s) == SelectSeq(ResetOrder[k], LAMBDA fld : NeedsAlloc(s[fld]))

\* The copies Reset makes after its loop over the GPUs.
ResetTail(k) ==
    IF k = "HITS"
    THEN <<"d_hrank_curr + src", "d_delta", "d_src_node">>
    ELSE <<"d_keys[0]", "d_src_node", "d_labels + src", "d_preds + src",
           "d_sigmas + src">>

\* The checked calls of Reset on slice s, in order.
ResetCalls(k, s) ==
    << <<"cudaSetDevice", "gpu_idx">> >>
        \o [i \in 1..Len(ResetMallocs(k, s)) |-> <<"cudaMalloc", ResetMallocs(k, s)[i]>>]
        \o << <<"cudaMemcpy", "d_data_slices">> >>
        \o [i \in 1..Len(ResetTail(k)) |-> <<"cudaMemcpy", ResetTail(k)[i]>>]

ErrorOf(call) ==
    CASE call[1] = "cudaMalloc" -> cudaErrorMemoryAllocation
      [] call[1] = "cudaMemcpy" -> cudaErrorInvalidValue
      [] OTHER -> cudaErrorInvalidDevice

\* Slice s after a Reset whose f-th checked call failed (0: none did).
ResetSlice(k, s, f) ==
    LET m == ResetMallocs(k, s)
        got(fld) == \E i \in 1..Len(m) : m[i] = fld /\ (f = 0 \/ i + 1 < f)
        s1 == [fld \in DOMAIN s |->
                  IF got(fld) THEN next_ptr + Index(m, fld) ELSE s[fld]]
    IN  IF k = "HITS" /\ (f = 0 \/ f > Len(m) + 1)
        THEN [s1 EXCEPT !["d_labels"] = NULL]
        ELSE s1

\* Reset, called on a Problem whose Init succeeded: the result of
\* ProblemBase::Reset is dropped; every other failing call returns its error at once.
ProblemReset ==
    /\ init_ok
    /\ num_gpus = 1
    /\ resets < MaxResets
    /\ \E base_ok \in BOOLEAN,
          f \in 0..Len(ResetCalls(kind, data_slices[1])) :
         LET s == data_slices[1]
             m == ResetMallocs(kind, s)
         IN  /\ data_slices' = << ResetSlice(kind, s, f) >>
             /\ next_ptr' = next_ptr +
                    Cardinality({i \in 1..Len(m) : f = 0 \/ i + 1 < f})
             /\ call_ret' = IF f = 0 THEN cudaSuccess
                            ELSE ErrorOf(ResetCalls(kind, s)[f])
             /\ failed' = (IF base_ok THEN {} ELSE {<<"ProblemBase", "Reset">>})
                            \cup (IF f = 0 THEN {} ELSE {ResetCalls(kind, s)[f]})
    /\ last_call' = "Reset"
    /\ resets' = resets + 1
    /\ UNCHANGED <<kind, num_gpus, d_data_slices, init_ok, host_filled>>
    /\ UNCHANGED otherThanProblem

\* The copies Extract makes in the single-GPU branch, after cudaSetDevice.
ExtractCopies(k, ebc, sig) ==
    IF k = "HITS"
    THEN <<"h_hrank", "h_arank">>
    ELSE <<"h_bc_values">>
            \o (IF ebc THEN <<"h_ebc_values">> ELSE << >>)
            \o (IF sig THEN <<"h_sigmas">> ELSE << >>)

\* What Extract returns when its f-th call failed (0: none did): the result of
\* cudaSetDevice (call 1) is tested but never assigned to retval.
ExtractRetval(f) ==
    IF f = 0 \/ f = 1 THEN cudaSuccess ELSE cudaErrorInvalidValue

\* Extract, called on a Problem whose Init succeeded, single-GPU branch; ebc and
\* sig say which optional buffers were passed.
ProblemExtract ==
    /\ init_ok
    /\ num_gpus = 1
    /\ \E ebc \in BOOLEAN, sig \in BOOLEAN :
       \E f \in 0..(Len(ExtractCopies(kind, ebc, sig)) + 1) :
         LET c == ExtractCopies(kind, ebc, sig)
         IN  /\ call_ret' = ExtractRetval(f)
             /\ failed' = IF f = 0 THEN {}
                          ELSE IF f = 1 THEN {<<"cudaSetDevice", "gpu_idx">>}
                          ELSE {<<"cudaMemcpy", c[f - 1]>>}
             /\ host_filled' = host_filled \cup
                    {c[i] : i \in {j \in 1..Len(c) : f = 0 \/ j + 1 < f}}
    /\ last_call' = "Extract"
    /\ UNCHANGED <<kind, num_gpus, data_slices, d_data_slices, next_ptr,
                   init_ok, resets>>
    /\ UNCHANGED otherThanProblem

\* Init called with _num_gpus > 1: the `if (num_gpus <= 1)` block is skipped
\* and the multi-GPU allocation is a TODO, so no data slice is created, nothing
\* is allocated and cudaSuccess is returned; the result of ProblemBase::Init is
\* dropped.
ProblemInitMulti ==
    /\ last_call = "none"
    /\ \E k \in {"HITS", "BC"}, base_ok \in BOOLEAN, n \in 2..MaxGpus :
         /\ kind' = k
         /\ num_gpus' = n
         /\ failed' = IF base_ok THEN {} ELSE {<<"ProblemBase", "Init">>}
    /\ data_slices' = << >>
    /\ call_ret' = cudaSuccess
    /\ init_ok' = TRUE
    /\ last_call' = "Init"
    /\ UNCHANGED <<d_data_slices, next_ptr, resets, host_filled>>
    /\ UNCHANGED otherThanProblem

\* Extract, the branch for num_gpus other than 1: a TODO; nothing is copied
\* and retval is still cudaSuccess.
ProblemExtractMulti ==
    /\ init_ok
    /\ num_gpus # 1
    /\ last_call # "Extract"
    /\ call_ret' = cudaSuccess
    /\ failed' = {}
    /\ last_call' = "Extract"
    /\ UNCHANGED <<kind, num_gpus, data_slices, d_data_slices, next_ptr,
                   init_ok, resets, host_filled>>
    /\ UNCHANGED otherThanProblem

\* The buffers a caller of Extract always passes.
RequiredBuffers(k) ==
    IF k = "HITS" THEN {"h_hrank", "h_arank"} ELSE {"h_bc_values"}

ProblemInitState ==
    /\ SalsaIdle
    /\ ProblemIdle
    /\ BfsProblemIdle
    /\ BfsRunIdle
    /\ PrIdle
    /\ RestIdle

ProblemNext ==
    \/ ProblemInit
    \/ ProblemInitMulti
    \/ ProblemReset
    \/ ProblemExtract
    \/ ProblemExtractMulti

SpecProblem == ProblemInitState /\ [][ProblemNext]_vars

(***************************************************************************)
(* Claims about HITSProblem and BCProblem, checked under SpecProblem.      *)
(***************************************************************************)

\* C4: Init, Reset and Extract return a non-success status whenever a device
\* call or a ProblemBase call made inside them failed.
C4_FailurePropagates ==
    (last_call # "none" /\ failed # {}) => call_ret # cudaSuccess

\* C6: after a successful Init, every Reset call leaves each non-null DataSlice
\* array pointer as it was, makes no more allocations than there are null
\* pointers, and gives a new address only to a pointer that was null.
C6_ResetKeepsAllocations ==
    [][ (init_ok /\ last_call' = "Reset" /\ resets' = resets + 1) =>
          LET s == data_slices[1]
              t == data_slices'[1]
          IN  /\ \A fld \in DOMAIN s : s[fld] # NULL => t[fld] = s[fld]
              /\ \A fld \in DOMAIN s :
                    s[fld] = NULL => t[fld] \in {NULL} \cup ((next_ptr + 1)..next_ptr')
              /\ next_ptr' - next_ptr
                    <= Cardinality({fld \in DOMAIN s : s[fld] = NULL})
      ]_vars

\* C6 witness: a second Reset in a row has returned cudaSuccess after a successful Init.
C6_Witness ==
    init_ok /\ resets >= 2 /\ last_call = "Reset" /\ call_ret = cudaSuccess

(***************************************************************************)
(*                           BFSProblem                                    *)
(***************************************************************************)
\* util::MaxValue<VertexId>() for the 32-bit signed VertexId.
MaxValueVertexId == 2147483647

\* What Reset fills labels with (line 171).
LabelSentinel(idem) == IF idem THEN -1 ELSE MaxValueVertexId - 1

\* What Reset fills preds with (line 180).
PredSentinel == -2

\* What device memory nobody has written yet may hold.
GarbageValues == {0, PredSentinel}

\* The possible contents of a fresh device array of n elements.
Fresh(n) == [0..(n - 1) -> GarbageValues]

Filled(n, value) == [v \in 0..(n - 1) |-> value]

\* util::Array1D::Allocate(size, util::DEVICE): releases what the array holds on
\* the device and allocates again; the new memory holds no defined value.
Array1DAllocate(ptr) == device_allocs + 1

\* util::Array1D::Move(util::DEVICE, util::HOST): the host buffer receives what
\* the device array holds, element by element.
Array1DMove(device) == [v \in DOMAIN device |-> device[v]]

\* The checked calls of BFSProblem::Init with one GPU, in order.
BfsInitCalls(mark, idem) ==
    <<"BaseProblem::Init", "SetDevice", "data_slices.Allocate",
      "DataSliceBase::Init", "labels.Allocate">>
        \o (IF mark THEN <<"preds.Allocate", "temp_preds.Allocate">> ELSE << >>)
        \o (IF idem THEN <<"visited_mask.Allocate", "cudaBindTexture">> ELSE << >>)

\* The checked calls of BFSProblem::Reset with one GPU, in order.
BfsResetCalls(mark) ==
    <<"SetDevice", "labels.Allocate">>
        \o (IF mark THEN <<"preds.Allocate">> ELSE << >>)
        \o <<"data_slices.Move">>

\* The checked calls of BFSProblem::Extract with one GPU, in order.
BfsExtractCalls(mark) ==
    <<"SetDevice", "labels.Move">> \o (IF mark THEN <<"preds.Move">> ELSE << >>)

BfsErrorOf(call) ==
    CASE call \in {"labels.Allocate", "preds.Allocate", "temp_preds.Allocate",
                   "visited_mask.Allocate", "data_slices.Allocate"}
            -> cudaErrorMemoryAllocation
      [] call = "SetDevice" -> cudaErrorInvalidDevice
      [] call \in {"BaseProblem::Init", "DataSliceBase::Init"}
            -> cudaErrorInitializationError
      [] OTHER -> cudaErrorInvalidValue

\* TRUE when call c of the sequence calls was made and succeeded, the f-th call
\* being the first that failed (0: none did).
Done(calls, c, f) ==
    \E i \in 1..Len(calls) : calls[i] = c /\ (f = 0 \/ i < f)

\* BFSProblem::Init and DataSlice::Init: every call is checked and a failure
\* returns at once.
BfsProblemInit ==
    /\ bfs_call = "none"
    /\ \E mark \in BOOLEAN, idem \in BOOLEAN, n \in 1..MaxBfsNodes :
       \E s \in 0..(n - 1), f \in 0..Len(BfsInitCalls(mark, idem)),
          gl \in Fresh(n), gp \in Fresh(n) :
         LET calls == BfsInitCalls(mark, idem)
             gotL == Done(calls, "labels.Allocate", f)
             gotP == Done(calls, "preds.Allocate", f)
             p1 == Array1DAllocate(labels_ptr)
         IN  /\ MARK_PREDECESSORS' = mark
             /\ ENABLE_IDEMPOTENCE' = idem
             /\ slice_nodes' = n
             /\ src' = s
             /\ labels_ptr' = IF gotL THEN p1 ELSE labels_ptr
             /\ labels' = IF gotL THEN gl ELSE labels
             /\ preds_ptr' = IF gotP THEN p1 + 1 ELSE preds_ptr
             /\ preds' = IF gotP THEN gp ELSE preds
             /\ device_allocs' = device_allocs
                    + (IF gotL THEN 1 ELSE 0) + (IF gotP THEN 1 ELSE 0)
             /\ bfs_retval' = IF f = 0 THEN cudaSuccess ELSE BfsErrorOf(calls[f])
             /\ bfs_init_ok' = (f = 0)
    /\ bfs_call' = "Init"
    /\ UNCHANGED <<h_labels, h_preds, reset_ok, bfs_resets>>
    /\ UNCHANGED otherThanBfsProblem

\* BFSProblem::Reset and DataSlice::Reset: labels (and preds) are allocated
\* without looking at the pointer they hold, then filled by MemsetKernel.
BfsProblemReset ==
    /\ bfs_init_ok
    /\ bfs_resets < MaxResets
    /\ \E f \in 0..Len(BfsResetCalls(MARK_PREDECESSORS)) :
         LET calls == BfsResetCalls(MARK_PREDECESSORS)
             triedL == f = 0 \/ f >= 2
             gotL == Done(calls, "labels.Allocate", f)
             triedP == MARK_PREDECESSORS /\ gotL /\ (f = 0 \/ f >= 3)
             gotP == Done(calls, "preds.Allocate", f)
             p1 == Array1DAllocate(labels_ptr)
         IN  /\ labels_ptr' = IF gotL THEN p1 ELSE IF triedL THEN NULL ELSE labels_ptr
             /\ labels' = IF gotL
                          THEN Filled(slice_nodes, LabelSentinel(ENABLE_IDEMPOTENCE))
                          ELSE IF triedL THEN << >> ELSE labels
             /\ preds_ptr' = IF gotP THEN p1 + 1 ELSE IF triedP THEN NULL ELSE preds_ptr
             /\ preds' = IF gotP THEN Filled(slice_nodes, PredSentinel)
                         ELSE IF triedP THEN << >> ELSE preds
             /\ device_allocs' = device_allocs
                    + (IF gotL THEN 1 ELSE 0) + (IF gotP THEN 1 ELSE 0)
             /\ bfs_retval' = IF f = 0 THEN cudaSuccess ELSE BfsErrorOf(calls[f])
             /\ reset_ok' = (f = 0)
    /\ bfs_call' = "Reset"
    /\ bfs_resets' = bfs_resets + 1
    /\ UNCHANGED <<MARK_PREDECESSORS, ENABLE_IDEMPOTENCE, slice_nodes, src,
                   h_labels, h_preds, bfs_init_ok>>
    /\ UNCHANGED otherThanBfsProblem

\* BFSProblem::Extract, the num_gpus == 1 branch: the device arrays are moved
\* into the caller's buffers.
BfsProblemExtract ==
    /\ bfs_init_ok
    /\ labels_ptr # NULL
    /\ MARK_PREDECESSORS => preds_ptr # NULL
    /\ \E f \in 0..Len(BfsExtractCalls(MARK_PREDECESSORS)) :
         LET calls == BfsExtractCalls(MARK_PREDECESSORS)
         IN  /\ h_labels' = IF Done(calls, "labels.Move", f)
                            THEN Array1DMove(labels) ELSE h_labels
             /\ h_preds' = IF Done(calls, "preds.Move", f)
                           THEN Array1DMove(preds) ELSE h_preds
             /\ bfs_retval' = IF f = 0 THEN cudaSuccess ELSE BfsErrorOf(calls[f])
    /\ bfs_call' = "Extract"
    /\ UNCHANGED <<MARK_PREDECESSORS, ENABLE_IDEMPOTENCE, slice_nodes, src,
                   labels, preds, labels_ptr, preds_ptr, device_allocs,
                   bfs_init_ok, reset_ok, bfs_resets>>
    /\ UNCHANGED otherThanBfsProblem

BfsProblemInitState ==
    /\ SalsaIdle
    /\ ProblemIdle
    /\ BfsProblemIdle
    /\ BfsRunIdle
    /\ PrIdle
    /\ RestIdle

BfsProblemNext ==
    \/ BfsProblemInit
    \/ BfsProblemReset
    \/ BfsProblemExtract

SpecBfsProblem == BfsProblemInitState /\ [][BfsProblemNext]_vars

(***************************************************************************)
(* Claims about BFSProblem, checked under SpecBfsProblem.                  *)
(***************************************************************************)

\* C5: on a single GPU, Extract right after a successful Reset, with no
\* iteration in between, yields h_labels with 0 at the source vertex and the
\* sentinel at every other vertex.
C5_ResetExtractRoundTrip ==
    (bfs_call = "Extract" /\ bfs_retval = cudaSuccess /\ reset_ok) =>
        \A v \in 0..(slice_nodes - 1) :
            h_labels[v] = IF v = src THEN 0 ELSE LabelSentinel(ENABLE_IDEMPOTENCE)

\* C7: a Reset that finds labels (or preds) already allocated issues no
\* allocation for it and leaves its device pointer as it was.
C7_ResetIssuesNoAllocation ==
    [][ (bfs_call' = "Reset" /\ bfs_resets' = bfs_resets + 1) =>
          /\ labels_ptr # NULL => labels_ptr' = labels_ptr
          /\ (MARK_PREDECESSORS /\ preds_ptr # NULL) => preds_ptr' = preds_ptr
          /\ (labels_ptr # NULL /\ (MARK_PREDECESSORS => preds_ptr # NULL))
                => device_allocs' = device_allocs
      ]_vars

(***************************************************************************)
(*          A non-idempotent BFS run with BFSFunctor, level by level       *)
(***************************************************************************)
Vertices == 0..(MaxVertices - 1)

\* The graphs of the model: at most MaxGraphEdges directed edges on Vertices,
\* self-loops included.
Graphs ==
    {{}} \cup {{f[i] : i \in 1..MaxGraphEdges} :
                 f \in [1..MaxGraphEdges -> Vertices \X Vertices]}

\* The state BFSProblem::Init and BFSProblem::Reset leave for a run on graph g.
BfsRunInit ==
    /\ SalsaIdle
    /\ ProblemIdle
    /\ PrIdle
    /\ RestIdle
    /\ MARK_PREDECESSORS \in BOOLEAN
    /\ ENABLE_IDEMPOTENCE = FALSE
    /\ slice_nodes = MaxVertices
    /\ src \in Vertices
    /\ labels = Filled(slice_nodes, LabelSentinel(ENABLE_IDEMPOTENCE))
    /\ preds = IF MARK_PREDECESSORS THEN Filled(slice_nodes, PredSentinel) ELSE << >>
    /\ labels_ptr = IF MARK_PREDECESSORS THEN 3 ELSE 2
    /\ preds_ptr = IF MARK_PREDECESSORS THEN 4 ELSE NULL
    /\ device_allocs = IF MARK_PREDECESSORS THEN 4 ELSE 2
    /\ h_labels = << >>
    /\ h_preds = << >>
    /\ bfs_call = "Reset"
    /\ bfs_retval = cudaSuccess
    /\ bfs_init_ok = TRUE
    /\ reset_ok = TRUE
    /\ bfs_resets = 1
    /\ graph_edges \in Graphs
    /\ frontier = {}
    /\ items = << >>
    /\ out_queue = {}
    /\ bfs_pc = "seed"

\* The enactor seeds the run: the source gets label 0 and predecessor -1 and is
\* the only vertex of the first frontier.
BfsSeed ==
    /\ bfs_pc = "seed"
    /\ labels' = [labels EXCEPT ![src] = 0]
    /\ preds' = IF MARK_PREDECESSORS THEN [preds EXCEPT ![src] = -1] ELSE preds
    /\ frontier' = {src}
    /\ bfs_pc' = "advance"
    /\ UNCHANGED <<graph_edges, items, out_queue>>
    /\ UNCHANGED otherThanBfsRun

\* Advance: one work item per out-edge of the input frontier; the functor is
\* handed the edge's source vertex as s_id and its destination as d_id.
LaunchAdvance ==
    /\ bfs_pc = "advance"
    /\ frontier # {}
    /\ items' = [e \in {x \in graph_edges : x[1] \in frontier} |->
                    [pc |-> "load", new_label |-> 0]]
    /\ out_queue' = {}
    /\ bfs_pc' = "edges"
    /\ UNCHANGED <<graph_edges, frontier, labels, preds>>
    /\ UNCHANGED otherThanBfsRun

\* CondEdge, lines 66-69: new_label is the label of s_id with MARK_PREDECESSORS,
\* and s_id itself without.
NewLabel(s_id) == IF MARK_PREDECESSORS THEN labels[s_id] ELSE s_id

CondEdgeLoad ==
    /\ bfs_pc = "edges"
    /\ \E e \in DOMAIN items :
         /\ items[e].pc = "load"
         /\ items' = [items EXCEPT ![e] = [pc |-> "min", new_label |-> NewLabel(e[1])]]
    /\ UNCHANGED <<graph_edges, frontier, out_queue, bfs_pc, labels, preds>>
    /\ UNCHANGED otherThanBfsRun

\* A plain store of the new value in place of the minimum.
MinStoresNew(a, b) == b

\* The larger of the two in place of the smaller.
MinKeepsLarger(a, b) == IF a < b THEN b ELSE a

Min(a, b) == IF a < b THEN a ELSE b

\* CondEdge, lines 70-72: new_label + 1 is offered to labels[d_id] by atomicMin;
\* the edge passes when it is below the label atomicMin found there.
CondEdgeAtomicMin ==
    /\ bfs_pc = "edges"
    /\ \E e \in DOMAIN items :
         LET new_label == items[e].new_label + 1
             old_label == labels[e[2]]
         IN  /\ items[e].pc = "min"
             /\ labels' = [labels EXCEPT ![e[2]] = Min(old_label, new_label)]
             /\ items' = [items EXCEPT ![e].pc =
                             IF new_label < old_label THEN "apply" ELSE "done"]
    /\ UNCHANGED <<graph_edges, frontier, out_queue, bfs_pc, preds>>
    /\ UNCHANGED otherThanBfsRun

\* A store of d_id, the edge's own destination, in place of its source.
ApplyEdgeStoresDest(s_id, d_id) == d_id

\* ApplyEdge, lines 101-103: what is stored at preds + d_id; original_vertex is
\* NULL on a single GPU.
ApplyEdgeStores(s_id, d_id) == s_id

\* ApplyEdge for an edge that passed CondEdge, then the write of d_id into the
\* output frontier.
ApplyEdge ==
    /\ bfs_pc = "edges"
    /\ \E e \in DOMAIN items :
         /\ items[e].pc = "apply"
         /\ preds' = IF MARK_PREDECESSORS
                     THEN [preds EXCEPT ![e[2]] = ApplyEdgeStores(e[1], e[2])]
                     ELSE preds
         /\ out_queue' = out_queue \cup {e[2]}
         /\ items' = [items EXCEPT ![e].pc = "done"]
    /\ UNCHANGED <<graph_edges, frontier, bfs_pc, labels>>
    /\ UNCHANGED otherThanBfsRun

\* CondFilter, line 124.
CondFilter(node) == node # -1

\* Filter, once every work item of the Advance is done: the vertices passing
\* CondFilter become the next frontier; ApplyFilter does nothing here.
Filter ==
    /\ bfs_pc = "edges"
    /\ \A e \in DOMAIN items : items[e].pc = "done"
    /\ frontier' = {node \in out_queue : CondFilter(node)}
    /\ out_queue' = {}
    /\ items' = << >>
    /\ bfs_pc' = "advance"
    /\ UNCHANGED <<graph_edges, labels, preds>>
    /\ UNCHANGED otherThanBfsRun

\* The run ends when the frontier is empty.
BfsFinish ==
    /\ bfs_pc = "advance"
    /\ frontier = {}
    /\ bfs_pc' = "done"
    /\ UNCHANGED <<graph_edges, frontier, items, out_queue, labels, preds>>
    /\ UNCHANGED otherThanBfsRun

BfsRunNext ==
    \/ BfsSeed
    \/ LaunchAdvance
    \/ CondEdgeLoad
    \/ CondEdgeAtomicMin
    \/ ApplyEdge
    \/ Filter
    \/ BfsFinish

SpecBfs == BfsRunInit /\ [][BfsRunNext]_vars

(***************************************************************************)
(* Claims about the BFS run, checked under SpecBfs.                        *)
(***************************************************************************)
RECURSIVE Within(_)
\* The vertices at most k hops away from the source.
Within(k) ==
    IF k = 0 THEN {src}
    ELSE Within(k - 1) \cup {e[2] : e \in {x \in graph_edges : x[1] \in Within(k - 1)}}

Reachable(v) == v \in Within(MaxVertices)

\* The length in edges of a shortest path from the source to a reachable v.
HopCount(v) == CHOOSE k \in 0..MaxVertices :
                   v \in Within(k) /\ \A j \in 0..(k - 1) : v \notin Within(j)

\* C8: when the non-idempotent run ends, every vertex reachable from the source
\* holds its shortest-path hop count as label and every other vertex holds the
\* sentinel Reset wrote.
C8_LabelsAreHopCounts ==
    bfs_pc = "done" =>
        \A v \in Vertices :
            labels[v] = IF Reachable(v) THEN HopCount(v)
                        ELSE LabelSentinel(ENABLE_IDEMPOTENCE)

PathGraph == {<<0, 1>>, <<1, 2>>, <<2, 3>>}

PrVertices == 0..(MaxPrNodes - 1)

Ranks == 0..MaxRank

Abs(x) == IF x < 0 THEN -x ELSE x

\* The state PRProblem leaves for a Filter over all vertices.
PrInit ==
    /\ SalsaIdle
    /\ ProblemIdle
    /\ BfsProblemIdle
    /\ BfsRunIdle
    /\ RestIdle
    /\ d_rank_curr \in [PrVertices -> Ranks]
    /\ d_rank_next \in [PrVertices -> Ranks]
    /\ d_delta \in 0..RankScale
    /\ d_threshold \in Ranks
    /\ rank_before = d_rank_next
    /\ pr_todo = {}
    /\ pr_out = {}
    /\ pr_pc = "idle"

\* Filter is launched on the frontier of all vertices.
LaunchFilter ==
    /\ pr_pc = "idle"
    /\ pr_todo' = PrVertices
    /\ pr_out' = {}
    /\ rank_before' = d_rank_next
    /\ pr_pc' = "filter"
    /\ UNCHANGED <<d_rank_curr, d_rank_next, d_delta, d_threshold>>
    /\ UNCHANGED otherThanPr

\* Lines 94-96: (1.0 - delta) + delta * d_rank_next[node], the product rounded
\* down to the grid.
Damped(delta, rank) == (RankScale - delta) + (delta * rank) \div RankScale

\* A comparison that also drops a vertex whose difference equals the threshold.
KeepsAbove(diff, threshold) == diff > threshold

\* Line 98: return (diff >= threshold).
Keeps(diff, threshold) == diff >= threshold

\* CondFilter on one vertex of the input frontier; a vertex for which it returns
\* true is written to the output frontier (ApplyFilter does nothing).
PRCondFilter ==
    /\ pr_pc = "filter"
    /\ \E node \in pr_todo :
         LET delta == d_delta
             next == Damped(delta, d_rank_next[node])
             diff == Abs(next - d_rank_curr[node])
         IN  /\ d_rank_next' = [d_rank_next EXCEPT ![node] = next]
             /\ pr_out' = IF Keeps(diff, d_threshold)
                          THEN pr_out \cup {node} ELSE pr_out
             /\ pr_todo' = pr_todo \ {node}
    /\ UNCHANGED <<d_rank_curr, d_delta, d_threshold, rank_before, pr_pc>>
    /\ UNCHANGED otherThanPr

\* The Filter kernel ends when every vertex of its input has been looked at.
FilterDone ==
    /\ pr_pc = "filter"
    /\ pr_todo = {}
    /\ pr_pc' = "done"
    /\ UNCHANGED <<d_rank_curr, d_rank_next, d_delta, d_threshold, rank_before,
                   pr_todo, pr_out>>
    /\ UNCHANGED otherThanPr

PrNext ==
    \/ LaunchFilter
    \/ PRCondFilter
    \/ FilterDone

SpecPR == PrInit /\ [][PrNext]_vars

(***************************************************************************)
(* Claims about PRFunctor, checked under SpecPR.                           *)
(***************************************************************************)

\* C10: for every vertex v CondFilter has been applied to, rank_next[v] is
\* (1 - delta) + delta * (the rank_next[v] it found), and v is missing from the
\* output frontier exactly when |rank_next[v] - rank_curr[v]| < threshold, so
\* every vertex in the output frontier has a difference >= threshold.
C10_CondFilterDampsThenCompares ==
    pr_pc # "idle" =>
        \A v \in PrVertices \ pr_todo :
            /\ d_rank_next[v] =
                  (RankScale - d_delta) + (d_delta * rank_before[v]) \div RankScale
            /\ v \notin pr_out <=> Abs(d_rank_next[v] - d_rank_curr[v]) < d_threshold
            /\ v \in pr_out => Abs(d_rank_next[v] - d_rank_curr[v]) >= d_threshold

\* C10 witness: a Filter has ended that changed a rank, kept one vertex whose
\* difference equals the threshold and dropped another.
C10_Witness ==
    /\ pr_pc = "done"
    /\ \E v \in pr_out, w \in PrVertices \ pr_out :
          /\ d_rank_next[v] # rank_before[v]
          /\ Abs(d_rank_next[v] - d_rank_curr[v]) = d_threshold
          /\ d_threshold > 0
          /\ Abs(d_rank_next[w] - d_rank_curr[w]) < d_threshold

\* C13: after HITSProblem::Extract or BCProblem::Extract with num_gpus > 1 has
\* returned cudaSuccess, the caller's host buffers hold the per-vertex values.
C13_MultiGpuExtractFillsBuffers ==
    (last_call = "Extract" /\ num_gpus > 1 /\ call_ret = cudaSuccess) =>
        RequiredBuffers(kind) \subseteq host_filled

\* ---------------------------------------------------------------------------
\* An idempotent BFS run (ENABLE_IDEMPOTENCE): Advance hands every out-edge of
\* the frontier to the Filter, the Filter prunes with the visited bitmask and
\* records the label of every vertex it lets through.
\* ---------------------------------------------------------------------------

otherThanIdem == <<salsaVars, problemVars, prVars, MARK_PREDECESSORS,
                   ENABLE_IDEMPOTENCE, slice_nodes, src, preds, labels_ptr,
                   preds_ptr, device_allocs, h_labels, h_preds, bfs_call,
                   bfs_retval, bfs_init_ok, reset_ok, bfs_resets, items,
                   gatherVars, sizeVars, rmatVars, randomVars, searchVars,
    condVars,
    atomicVars,
    prAdvanceVars,
    utilSearchVars,
    topkVars,
    runTopkVars,
    slicesVars>>

\* The state after BFSProblem::Reset in idempotent mode: every label is -1 and
\* the visited mask is all zero.
IdemInit ==
    /\ SlicesIdle
    /\ RunTopkIdle
    /\ TopkIdle
    /\ UtilSearchIdle
    /\ PrAdvanceIdle
    /\ AtomicAddIdle
    /\ CondIdle
    /\ SalsaIdle
    /\ ProblemIdle
    /\ PrIdle
    /\ GatherIdle
    /\ SizesIdle
    /\ RmatIdle
    /\ RandomIdle
    /\ SearchIdle
    /\ MARK_PREDECESSORS = FALSE
    /\ ENABLE_IDEMPOTENCE = TRUE
    /\ slice_nodes = MaxVertices
    /\ src \in Vertices
    /\ labels = Filled(slice_nodes, LabelSentinel(ENABLE_IDEMPOTENCE))
    /\ preds = << >>
    /\ labels_ptr = 2
    /\ preds_ptr = NULL
    /\ device_allocs = 2
    /\ h_labels = << >>
    /\ h_preds = << >>
    /\ bfs_call = "Reset"
    /\ bfs_retval = cudaSuccess
    /\ bfs_init_ok = TRUE
    /\ reset_ok = TRUE
    /\ bfs_resets = 1
    /\ graph_edges \in Graphs
    /\ frontier = {}
    /\ items = << >>
    /\ out_queue = {}
    /\ bfs_pc = "seed"
    /\ visited_mask = {}
    /\ bfs_iteration = 0
    /\ filter_items = << >>
    /\ marked_before = {}

\* The enactor seeds the run: the source gets label 0 and is the only vertex
\* of the first frontier.
IdemSeed ==
    /\ bfs_pc = "seed"
    /\ labels' = [labels EXCEPT ![src] = 0]
    /\ frontier' = {src}
    /\ bfs_pc' = "advance"
    /\ UNCHANGED <<graph_edges, out_queue, idemVars>>
    /\ UNCHANGED otherThanIdem

\* CondEdge, lines 56-63: with ENABLE_IDEMPOTENCE every edge is accepted.
CondEdgeIdempotent(s_id, d_id) == TRUE

\* Advance followed by the launch of the Filter: ApplyEdge does nothing in
\* idempotent mode (lines 97-98), so every accepted edge only puts its
\* destination into the queue the Filter reads, duplicates included.
IdemAdvance ==
    /\ bfs_pc = "advance"
    /\ frontier # {}
    /\ bfs_iteration < MaxBfsIterations
    /\ filter_items' = [e \in {x \in graph_edges : /\ x[1] \in frontier
                                                   /\ CondEdgeIdempotent(x[1], x[2])} |->
                           [pc |-> "cull", node |-> e[2]]]
    /\ marked_before' = visited_mask
    /\ bfs_pc' = "idem_filter"
    /\ UNCHANGED <<graph_edges, frontier, out_queue, labels, visited_mask, bfs_iteration>>
    /\ UNCHANGED otherThanIdem

\* The mutant of BitmaskCull: no element is ever pruned.
BitmaskCullNever(node, mask) == FALSE

\* The visited-bitmask check of the Filter: an element whose bit is already
\* set is dropped.
BitmaskCull(node, mask) == node \in mask

\* One Filter thread reads the bit of its element.
IdemCull ==
    /\ bfs_pc = "idem_filter"
    /\ \E e \in DOMAIN filter_items :
        /\ filter_items[e].pc = "cull"
        /\ filter_items' = [filter_items EXCEPT ![e].pc =
                               IF BitmaskCull(filter_items[e].node, visited_mask)
                               THEN "dropped" ELSE "passed"]
    /\ UNCHANGED <<graph_edges, frontier, out_queue, bfs_pc, labels,
                   visited_mask, bfs_iteration, marked_before>>
    /\ UNCHANGED otherThanIdem

\* ApplyFilter, lines 136-148: in idempotent mode v is stored as the label of
\* node.
ApplyFilter(node, v) ==
    IF ENABLE_IDEMPOTENCE THEN [labels EXCEPT ![node] = v] ELSE labels

\* One Filter thread whose element passed the bitmask sets the bit, asks
\* CondFilter and, if accepted, calls ApplyFilter with the level of the pass
\* and emits the element.
IdemApply ==
    /\ bfs_pc = "idem_filter"
    /\ \E e \in DOMAIN filter_items :
        LET node == filter_items[e].node IN
        /\ filter_items[e].pc = "passed"
        /\ visited_mask' = visited_mask \cup {node}
        /\ IF CondFilter(node)
           THEN /\ labels' = ApplyFilter(node, bfs_iteration + 1)
                /\ out_queue' = out_queue \cup {node}
                /\ filter_items' = [filter_items EXCEPT ![e].pc = "applied"]
           ELSE /\ filter_items' = [filter_items EXCEPT ![e].pc = "dropped"]
                /\ UNCHANGED <<labels, out_queue>>
    /\ UNCHANGED <<graph_edges, frontier, bfs_pc, bfs_iteration, marked_before>>
    /\ UNCHANGED otherThanIdem

\* The Filter has finished: its output is the next frontier.
IdemFilterDone ==
    /\ bfs_pc = "idem_filter"
    /\ \A e \in DOMAIN filter_items : filter_items[e].pc \in {"dropped", "applied"}
    /\ frontier' = out_queue
    /\ out_queue' = {}
    /\ filter_items' = << >>
    /\ bfs_iteration' = bfs_iteration + 1
    /\ bfs_pc' = "advance"
    /\ UNCHANGED <<graph_edges, labels, visited_mask, marked_before>>
    /\ UNCHANGED otherThanIdem

\* The run ends when the frontier is empty.
IdemFinish ==
    /\ bfs_pc = "advance"
    /\ frontier = {}
    /\ bfs_pc' = "done"
    /\ UNCHANGED <<graph_edges, frontier, out_queue, labels, idemVars>>
    /\ UNCHANGED otherThanIdem

IdemNext ==
    \/ IdemSeed
    \/ IdemAdvance
    \/ IdemCull
    \/ IdemApply
    \/ IdemFilterDone
    \/ IdemFinish

SpecBfsIdem == IdemInit /\ [][IdemNext]_vars

otherThanGather == <<salsaVars, problemVars, bfsRunVars, prVars, idemVars,
                     sizeVars, rmatVars, randomVars, searchVars,
                     ENABLE_IDEMPOTENCE, slice_nodes, src, labels, preds,
                     labels_ptr, preds_ptr, device_allocs, bfs_init_ok,
                     reset_ok, bfs_resets,
    condVars,
    atomicVars,
    prAdvanceVars,
    utilSearchVars,
    topkVars,
    runTopkVars,
    slicesVars>>

\* this->nodes and this->num_gpus of the partitioned problem.
GatherNodes == Cardinality(DOMAIN partition_tables)
GatherGpus == Cardinality(DOMAIN gpu_labels)

\* The vertices partition table p gives to GPU g.
Owned(p, g) == {v \in DOMAIN p : p[v] = g}

\* The values a label or predecessor of a slice may hold at the end of a run.
SliceValues == {0, 1}

\* What the caller's buffers hold before Extract.
HostGarbage == -7

\* The per-GPU arrays of a run whose per-vertex values are a: the slice of a
\* GPU holds the value of each vertex it owns at the vertex's local index.
Sliced(a, p, c, g) ==
    [gpu \in 0..(g - 1) |->
        [i \in 0..(Cardinality(Owned(p, gpu)) - 1) |->
            a[CHOOSE v \in Owned(p, gpu) : c[v] = i]]]

\* A problem partitioned over num_gpus > 1 GPUs after a run: every global
\* vertex belongs to one GPU and has its own local index in that GPU's slice.
GatherInit ==
    /\ SlicesIdle
    /\ RunTopkIdle
    /\ TopkIdle
    /\ UtilSearchIdle
    /\ PrAdvanceIdle
    /\ AtomicAddIdle
    /\ CondIdle
    /\ SalsaIdle
    /\ ProblemIdle
    /\ BfsRunIdle
    /\ PrIdle
    /\ IdemIdle
    /\ SizesIdle
    /\ RmatIdle
    /\ RandomIdle
    /\ SearchIdle
    /\ MARK_PREDECESSORS \in BOOLEAN
    /\ ENABLE_IDEMPOTENCE = FALSE
    /\ slice_nodes = 0
    /\ src = 0
    /\ labels = << >>
    /\ preds = << >>
    /\ labels_ptr = NULL
    /\ preds_ptr = NULL
    /\ device_allocs = 0
    /\ bfs_call = "Reset"
    /\ bfs_retval = cudaSuccess
    /\ bfs_init_ok = TRUE
    /\ reset_ok = TRUE
    /\ bfs_resets = 1
    /\ \E n \in 1..MaxGatherNodes, g \in 2..MaxGpus :
        /\ partition_tables \in [0..(n - 1) -> 0..(g - 1)]
        /\ convertion_tables \in [0..(n - 1) -> 0..(n - 1)]
        /\ \A v \in 0..(n - 1) :
              convertion_tables[v] < Cardinality(Owned(partition_tables, partition_tables[v]))
        /\ \A v, w \in 0..(n - 1) :
              (v # w /\ partition_tables[v] = partition_tables[w])
                  => convertion_tables[v] # convertion_tables[w]
        /\ \E l \in [0..(n - 1) -> SliceValues] :
              gpu_labels = Sliced(l, partition_tables, convertion_tables, g)
        /\ IF MARK_PREDECESSORS
           THEN \E p \in [0..(n - 1) -> SliceValues] :
                   gpu_preds = Sliced(p, partition_tables, convertion_tables, g)
           ELSE gpu_preds = [gpu \in 0..(g - 1) |-> << >>]
        /\ h_labels = Filled(n, HostGarbage)
        /\ h_preds = Filled(n, HostGarbage)

\* The checked calls of the multi-GPU branch of Extract, in order: the moves
\* of every GPU, then the releases of every GPU.
RECURSIVE GatherMoves(_, _)
GatherMoves(g, mark) ==
    IF g = 0 THEN << >>
    ELSE GatherMoves(g - 1, mark)
            \o <<"SetDevice", "labels.Move">>
            \o (IF mark THEN <<"preds.Move">> ELSE << >>)

RECURSIVE GatherReleases(_)
GatherReleases(g) ==
    IF g = 0 THEN << >>
    ELSE GatherReleases(g - 1) \o <<"labels.Release", "preds.Release">>

\* The mutant of LocalIndex: every vertex is read at local index 0.
LocalIndexZero(v) == 0

\* Lines 296-297: the GPU of global vertex v and its index in that GPU's slice.
GpuOf(v) == partition_tables[v]
LocalIndex(v) == convertion_tables[v]

\* Lines 298-299: the bounds test of the gather loop.
InBound(gpu, v_) ==
    /\ gpu >= 0
    /\ gpu < GatherGpus
    /\ v_ >= 0
    /\ v_ < Cardinality(DOMAIN gpu_labels[gpu])

\* Lines 294-310: the gather loop over all global vertices; an entry that
\* fails the bounds test is left as it was.
Gathered(th, h) ==
    [v \in DOMAIN h |->
        IF v < GatherNodes /\ InBound(GpuOf(v), LocalIndex(v))
        THEN th[GpuOf(v)][LocalIndex(v)]
        ELSE h[v]]

\* BFSProblem::Extract, the branch for num_gpus other than 1. The f-th checked
\* call is the first that fails (0: none does); a failing move returns before
\* the gather loop, a failing release after it.
BfsProblemExtractMulti ==
    /\ bfs_call = "Reset"
    /\ LET moves == GatherMoves(GatherGpus, MARK_PREDECESSORS)
           calls == moves \o GatherReleases(GatherGpus)
       IN  \E f \in 0..Len(calls) :
             LET copied == f = 0 \/ f > Len(moves)
             IN  /\ h_labels' = IF copied THEN Gathered(gpu_labels, h_labels) ELSE h_labels
                 /\ h_preds' = IF copied /\ MARK_PREDECESSORS
                               THEN Gathered(gpu_preds, h_preds) ELSE h_preds
                 /\ bfs_retval' = IF f = 0 THEN cudaSuccess ELSE BfsErrorOf(calls[f])
    /\ bfs_call' = "Extract"
    /\ UNCHANGED <<MARK_PREDECESSORS, gatherVars>>
    /\ UNCHANGED otherThanGather

GatherNext ==
    \/ BfsProblemExtractMulti

SpecBfsGather == GatherInit /\ [][GatherNext]_vars

\* C12: after BFSProblem::Extract with num_gpus > 1 has returned cudaSuccess,
\* h_labels[v] (and h_preds[v] with MARK_PREDECESSORS) of every global vertex v
\* is the value at local index convertion_tables[0][v] of the data slice of
\* GPU partition_tables[0][v].
C12_GatherThroughTables ==
    (bfs_call = "Extract" /\ bfs_retval = cudaSuccess /\ GatherGpus > 1) =>
        \A v \in 0..(GatherNodes - 1) :
            /\ h_labels[v] = gpu_labels[partition_tables[v]][convertion_tables[v]]
            /\ MARK_PREDECESSORS =>
                  h_preds[v] = gpu_preds[partition_tables[v]][convertion_tables[v]]

\* A successful gather with predecessors in which some vertex has a local
\* index that differs from its global id and some GPU holds two vertices with
\* different labels.
C12_Witness ==
    /\ bfs_call = "Extract"
    /\ bfs_retval = cudaSuccess
    /\ GatherGpus > 1
    /\ MARK_PREDECESSORS
    /\ \E v \in DOMAIN convertion_tables : convertion_tables[v] # v
    /\ \E v, w \in DOMAIN h_labels :
          /\ partition_tables[v] = partition_tables[w]
          /\ h_labels[v] # h_labels[w]
    /\ \A v \in DOMAIN h_labels : h_labels[v] # HostGarbage

\* ---------------------------------------------------------------------------
\* HITSProblem::Init and BCProblem::Init on one GPU, with the node and edge
\* counts of the graph they are handed.
\* ---------------------------------------------------------------------------

otherThanSizes == <<salsaVars, problemVars, bfsProblemVars, bfsRunVars, prVars,
                    idemVars, gatherVars, rmatVars, randomVars, searchVars,
    condVars,
    atomicVars,
    prAdvanceVars,
    utilSearchVars,
    topkVars,
    runTopkVars,
    slicesVars>>

\* The width of size_t, scaled down, and the bytes a cudaMalloc can get at most.
SizeTRange == 65536
DeviceMemory == 1024

\* sizeof(Value) and sizeof(VertexId).
SizeofElement == 4

\* The element count Init passes for array fld: edges for d_ebc_values, 1 for
\* the single-element arrays, nodes for the others.
CountOf(fld, n, e) ==
    IF fld = "d_ebc_values" THEN e
    ELSE IF fld \in {"d_delta", "d_src_node"} THEN 1
    ELSE n

\* `count * sizeof(T)` as the size_t argument of cudaMalloc: a negative count
\* wraps around.
BytesOf(count) == (count * SizeofElement) % SizeTRange

\* The index in InitCalls(k) of the first cudaMalloc that asks for more than the
\* device has (0: none does).
FirstTooLarge(k, n, e) ==
    LET big == {i \in 1..Len(InitOrder[k]) :
                   BytesOf(CountOf(InitOrder[k][i], n, e)) > DeviceMemory}
    IN  IF big = {} THEN 0 ELSE 2 + CHOOSE i \in big : \A j \in big : i <= j

SizesInit ==
    /\ SlicesIdle
    /\ RunTopkIdle
    /\ TopkIdle
    /\ UtilSearchIdle
    /\ PrAdvanceIdle
    /\ AtomicAddIdle
    /\ CondIdle
    /\ SalsaIdle
    /\ ProblemIdle
    /\ BfsProblemIdle
    /\ BfsRunIdle
    /\ PrIdle
    /\ IdemIdle
    /\ GatherIdle
    /\ RmatIdle
    /\ RandomIdle
    /\ SearchIdle
    /\ init_kind \in {"HITS", "BC"}
    /\ csr_nodes \in (-MaxNegative)..MaxInitNodes
    /\ csr_edges \in (-MaxNegative)..MaxInitEdges
    /\ init_retval = cudaSuccess
    /\ malloc_attempts = 0
    /\ slices_made = 0
    /\ size_pc = "start"

\* Init with _num_gpus = 1: nodes and edges are stored as they come; the f-th
\* checked call is the first to fail (0: none does), and a cudaMalloc that asks
\* for more than the device has fails.
SizedInit ==
    /\ size_pc = "start"
    /\ LET calls == InitCalls(init_kind)
           big == FirstTooLarge(init_kind, csr_nodes, csr_edges)
       IN  \E f \in 0..Len(calls) :
             /\ big # 0 => (f # 0 /\ f <= big)
             /\ init_retval' = IF f = 0 THEN cudaSuccess
                               ELSE IF f = 1 THEN cudaErrorInvalidDevice
                               ELSE cudaErrorMemoryAllocation
             /\ slices_made' = IF f = 1 THEN 0 ELSE 1
             /\ malloc_attempts' = IF f = 0 THEN Len(calls) - 1 ELSE f - 1
    /\ size_pc' = "done"
    /\ UNCHANGED <<init_kind, csr_nodes, csr_edges>>
    /\ UNCHANGED otherThanSizes

SizesNext ==
    \/ SizedInit

SpecInitSizes == SizesInit /\ [][SizesNext]_vars

\* C15: Init of a graph whose node or edge count is negative returns an error
\* status, has attempted no device allocation and has created no data slice.
C15_InitRejectsNegativeSizes ==
    (size_pc = "done" /\ (csr_nodes < 0 \/ csr_edges < 0)) =>
        /\ init_retval # cudaSuccess
        /\ malloc_attempts = 0
        /\ slices_made = 0

\* ---------------------------------------------------------------------------
\* graphio: BuildRmatGraph and RandomNode. SizeT and VertexId are signed
\* integers of IntBits bits.
\* ---------------------------------------------------------------------------

otherThanRmat == <<salsaVars, problemVars, bfsProblemVars, bfsRunVars, prVars,
                   idemVars, gatherVars, sizeVars, randomVars, searchVars,
    condVars,
    atomicVars,
    prAdvanceVars,
    utilSearchVars,
    topkVars,
    runTopkVars,
    slicesVars>>

RECURSIVE Pow2(_)
Pow2(k) == IF k = 0 THEN 1 ELSE 2 * Pow2(k - 1)

\* The values of a signed integer of IntBits bits.
MinInt == -Pow2(IntBits - 1)
MaxInt == Pow2(IntBits - 1) - 1
Ints == MinInt..MaxInt

\* Two's-complement wrap-around of x into IntBits bits.
Wrap(x) == ((x - MinInt) % Pow2(IntBits)) + MinInt

\* Integer division of C for a non-negative dividend and a positive divisor.
Half(x) == x \div 2

\* The four outcomes of ChoosePartition (lines 34-43): stay, move v, move u,
\* move both.
Quadrants == {<<0, 0>>, <<0, 1>>, <<1, 0>>, <<1, 1>>}

RmatInit ==
    /\ SlicesIdle
    /\ RunTopkIdle
    /\ TopkIdle
    /\ UtilSearchIdle
    /\ PrAdvanceIdle
    /\ AtomicAddIdle
    /\ CondIdle
    /\ SalsaIdle
    /\ ProblemIdle
    /\ BfsProblemIdle
    /\ BfsRunIdle
    /\ PrIdle
    /\ IdemIdle
    /\ GatherIdle
    /\ SizesIdle
    /\ RandomIdle
    /\ SearchIdle
    /\ rmat_nodes \in (-1)..MaxRmatNodes
    /\ rmat_edges \in Ints
    /\ undirected \in BOOLEAN
    /\ directed_edges = 0
    /\ coo = "none"
    /\ mallocs = 0
    /\ coo_i = 0
    /\ rmat_u = 0
    /\ rmat_v = 0
    /\ rmat_step = 0
    /\ coo_row = 0
    /\ coo_col = 0
    /\ graph_written = FALSE
    /\ rmat_ret = 0
    /\ rmat_pc = "entry"

\* Line 90: the sizes BuildRmatGraph rejects.
Rejected(n, e) == (n < 0) \/ (e < 0)

\* Lines 90-93: a negative size is rejected with -1.
RmatReject ==
    /\ rmat_pc = "entry"
    /\ Rejected(rmat_nodes, rmat_edges)
    /\ rmat_ret' = -1
    /\ rmat_pc' = "returned"
    /\ UNCHANGED <<rmat_nodes, rmat_edges, undirected, directed_edges, coo,
                   mallocs, coo_i, rmat_u, rmat_v, rmat_step, coo_row, coo_col,
                   graph_written>>
    /\ UNCHANGED otherThanRmat

\* The values `edges * 2` may take: the product when it fits, and otherwise
\* (signed overflow, undefined) either the wrapped value or the product
\* carried into the wider size computation.
Doubled(e) == IF 2 * e \in Ints THEN {2 * e} ELSE {Wrap(2 * e), 2 * e}

\* Lines 97-99: directed_edges and the malloc of the COO array; a negative
\* directed_edges turns into a size no malloc can satisfy, and coo is NULL.
RmatAllocate ==
    /\ rmat_pc = "entry"
    /\ ~Rejected(rmat_nodes, rmat_edges)
    /\ \E d \in (IF undirected THEN Doubled(rmat_edges) ELSE {rmat_edges}) :
        /\ directed_edges' = d
        /\ coo' = IF d < 0 THEN "NULL" ELSE "allocated"
    /\ mallocs' = mallocs + 1
    /\ rmat_pc' = "loop"
    /\ UNCHANGED <<rmat_nodes, rmat_edges, undirected, coo_i, rmat_u, rmat_v,
                   rmat_step, coo_row, coo_col, graph_written, rmat_ret>>
    /\ UNCHANGED otherThanRmat

\* Lines 101-109: the head of the loop over the edges.
RmatLoop ==
    /\ rmat_pc = "loop"
    /\ IF coo_i < rmat_edges
       THEN /\ rmat_u' = 1
            /\ rmat_v' = 1
            /\ rmat_step' = Half(rmat_nodes)
            /\ rmat_pc' = "partition"
       ELSE /\ rmat_pc' = "from_coo"
            /\ UNCHANGED <<rmat_u, rmat_v, rmat_step>>
    /\ UNCHANGED <<rmat_nodes, rmat_edges, undirected, directed_edges, coo,
                   mallocs, coo_i, coo_row, coo_col, graph_written, rmat_ret>>
    /\ UNCHANGED otherThanRmat

\* Lines 111-115 with ChoosePartition (28-44): one round of the while loop.
ChoosePartition ==
    /\ rmat_pc = "partition"
    /\ rmat_step >= 1
    /\ \E q \in Quadrants :
        /\ rmat_u' = Wrap(rmat_u + q[1] * rmat_step)
        /\ rmat_v' = Wrap(rmat_v + q[2] * rmat_step)
    /\ rmat_step' = Half(rmat_step)
    /\ UNCHANGED <<rmat_nodes, rmat_edges, undirected, directed_edges, coo,
                   mallocs, coo_i, coo_row, coo_col, graph_written, rmat_ret,
                   rmat_pc>>
    /\ UNCHANGED otherThanRmat

\* Lines 117-128: the edge is written into coo[i] (and its reverse into
\* coo[edges + i]); with coo NULL the write is through a null pointer and the
\* process is killed.
RmatCreateEdge ==
    /\ rmat_pc = "partition"
    /\ rmat_step < 1
    /\ IF coo = "NULL"
       THEN /\ rmat_pc' = "crashed"
            /\ UNCHANGED <<coo_row, coo_col, coo_i>>
       ELSE /\ coo_row' = Wrap(rmat_u - 1)
            /\ coo_col' = Wrap(rmat_v - 1)
            /\ coo_i' = coo_i + 1
            /\ rmat_pc' = "loop"
    /\ UNCHANGED <<rmat_nodes, rmat_edges, undirected, directed_edges, coo,
                   mallocs, rmat_u, rmat_v, rmat_step, graph_written, rmat_ret>>
    /\ UNCHANGED otherThanRmat

\* Lines 130-137: FromCoo fills the output graph, coo is freed, 0 is returned.
RmatFromCoo ==
    /\ rmat_pc = "from_coo"
    /\ graph_written' = TRUE
    /\ coo' = "freed"
    /\ rmat_ret' = 0
    /\ rmat_pc' = "returned"
    /\ UNCHANGED <<rmat_nodes, rmat_edges, undirected, directed_edges, mallocs,
                   coo_i, rmat_u, rmat_v, rmat_step, coo_row, coo_col>>
    /\ UNCHANGED otherThanRmat

RmatNext ==
    \/ RmatReject
    \/ RmatAllocate
    \/ RmatLoop
    \/ ChoosePartition
    \/ RmatCreateEdge
    \/ RmatFromCoo

SpecRmat == RmatInit /\ [][RmatNext]_vars

\* C14: a call of BuildRmatGraph with nodes < 0 or edges < 0 returns -1 having
\* allocated nothing and left the graph alone, and a call with nodes >= 0 and
\* edges >= 0 ends by returning 0.
C14_RejectsNegativeElseZero ==
    /\ (rmat_pc \in {"returned", "crashed"} /\ (rmat_nodes < 0 \/ rmat_edges < 0)) =>
          (rmat_pc = "returned" /\ rmat_ret = -1 /\ mallocs = 0 /\ ~graph_written)
    /\ (rmat_pc \in {"returned", "crashed"} /\ rmat_nodes >= 0 /\ rmat_edges >= 0) =>
          (rmat_pc = "returned" /\ rmat_ret = 0)

\* C29: for every size BuildRmatGraph accepts (nodes >= 0, edges >= 0) and
\* every sequence of quadrant choices, each edge written into the COO array
\* has its row and its col in [0, nodes).
C29_EdgesInsideGraph ==
    (coo_i > 0 /\ rmat_nodes >= 0 /\ rmat_edges >= 0) =>
        /\ coo_row \in 0..(rmat_nodes - 1)
        /\ coo_col \in 0..(rmat_nodes - 1)

\* On a graph with at least one vertex every edge written is inside it.
EdgesInsideNonEmptyGraph ==
    rmat_nodes >= 1 => C29_EdgesInsideGraph

\* ---------------------------------------------------------------------------
\* graphio::RandomNode
\* ---------------------------------------------------------------------------

otherThanRandom == <<salsaVars, problemVars, bfsProblemVars, bfsRunVars, prVars,
                     idemVars, gatherVars, sizeVars, rmatVars, searchVars,
    condVars,
    atomicVars,
    prAdvanceVars,
    utilSearchVars,
    topkVars,
    runTopkVars,
    slicesVars>>

\* |x|
Magnitude(x) == IF x < 0 THEN -x ELSE x

\* a % b of C: the remainder of the division that truncates towards zero; it
\* has the sign of a.
CRem(a, b) ==
    IF a < 0 THEN -(Magnitude(a) % Magnitude(b)) ELSE a % Magnitude(b)

\* Line 42: `if (node_id < 0) node_id *= -1;` in the width of SizeT.
Negated(id) == IF id < 0 THEN Wrap(id * (-1)) ELSE id

\* Lines 39-43: RandomNode for the bits RandomBits has put into node_id.
RandomNode(num_nodes, bits) == CRem(Negated(bits), num_nodes)

RandomInit ==
    /\ SlicesIdle
    /\ RunTopkIdle
    /\ TopkIdle
    /\ UtilSearchIdle
    /\ PrAdvanceIdle
    /\ AtomicAddIdle
    /\ CondIdle
    /\ SalsaIdle
    /\ ProblemIdle
    /\ BfsProblemIdle
    /\ BfsRunIdle
    /\ PrIdle
    /\ IdemIdle
    /\ GatherIdle
    /\ SizesIdle
    /\ RmatIdle
    /\ SearchIdle
    /\ rnd_num_nodes \in 1..MaxInt
    /\ node_id \in Ints
    /\ rnd_result = 0
    /\ rnd_pc = "call"

\* One call of RandomNode.
CallRandomNode ==
    /\ rnd_pc = "call"
    /\ rnd_result' = RandomNode(rnd_num_nodes, node_id)
    /\ rnd_pc' = "returned"
    /\ UNCHANGED <<rnd_num_nodes, node_id>>
    /\ UNCHANGED otherThanRandom

RandomNext ==
    \/ CallRandomNode

SpecRandomNode == RandomInit /\ [][RandomNext]_vars

\* C18: for every num_nodes > 0 and every bit pattern of node_id, RandomNode
\* returns a value in [0, num_nodes).
C18_RandomNodeInRange ==
    rnd_pc = "returned" => (0 <= rnd_result /\ rnd_result < rnd_num_nodes)

\* ---------------------------------------------------------------------------
\* topk: binary_search as build_topk_subgraph calls it on the rows of a CSR
\* graph. Arrays are functions from 0-based indices.
\* ---------------------------------------------------------------------------

otherThanSearch == <<salsaVars, problemVars, bfsProblemVars, bfsRunVars, prVars,
                     idemVars, gatherVars, sizeVars, rmatVars, randomVars,
    condVars,
    atomicVars,
    prAdvanceVars,
    utilSearchVars,
    topkVars,
    runTopkVars,
    slicesVars>>

\* The elements of the finite set of integers s in ascending order.
RECURSIVE Ascending(_)
Ascending(s) ==
    IF s = {} THEN << >>
    ELSE LET least == CHOOSE x \in s : \A y \in s : x <= y
         IN  <<least>> \o Ascending(s \ {least})

\* The neighbour lists of rows 0..(r - 1) of adjacency adj, one after the other.
RECURSIVE Concatenated(_, _)
Concatenated(adj, r) ==
    IF r = 0 THEN << >> ELSE Concatenated(adj, r - 1) \o Ascending(adj[r - 1])

\* The CSR arrays of adjacency adj over n vertices.
RowOffsets(adj, n) == [r \in 0..n |-> Len(Concatenated(adj, r))]
ColumnIndices(adj, n) ==
    [k \in 0..(Len(Concatenated(adj, n)) - 1) |-> Concatenated(adj, n)[k + 1]]

\* The neighbours of row r: column_indices[row_offsets[r] .. row_offsets[r+1]-1].
RowRange(r) == row_offsets[r]..(row_offsets[r + 1] - 1)
Neighbours(r) == {column_indices[k] : k \in RowRange(r)}

\* What a read of arr[k] can give: the element when k is inside the array, any
\* value when it is not.
ReadOf(arr, k) ==
    IF k \in DOMAIN arr THEN {arr[k]} ELSE 0..(Cardinality(DOMAIN row_offsets) - 2)

SearchInit ==
    /\ SlicesIdle
    /\ RunTopkIdle
    /\ TopkIdle
    /\ UtilSearchIdle
    /\ PrAdvanceIdle
    /\ AtomicAddIdle
    /\ CondIdle
    /\ SalsaIdle
    /\ ProblemIdle
    /\ BfsProblemIdle
    /\ BfsRunIdle
    /\ PrIdle
    /\ IdemIdle
    /\ GatherIdle
    /\ SizesIdle
    /\ RmatIdle
    /\ RandomIdle
    /\ \E n \in 1..MaxCsrNodes :
       \E adj \in [0..(n - 1) -> SUBSET (0..(n - 1))] :
        /\ Len(Concatenated(adj, n)) <= MaxCsrEdges
        /\ row_offsets = RowOffsets(adj, n)
        /\ column_indices = ColumnIndices(adj, n)
        /\ search_row \in 0..(n - 1)
        /\ search_val \in 0..(n - 1)
    /\ search_left = 0
    /\ search_right = 0
    /\ search_return = 0
    /\ search_reads = {}
    /\ search_pc = "call"

\* Lines 529-532 (the call in build_topk_subgraph): left is row_offsets of the
\* row and right is row_offsets of the row after it.
CallBinarySearch ==
    /\ search_pc = "call"
    /\ search_left' = row_offsets[search_row]
    /\ search_right' = row_offsets[search_row + 1]
    /\ search_pc' = "loop"
    /\ UNCHANGED <<row_offsets, column_indices, search_row, search_val,
                   search_return, search_reads>>
    /\ UNCHANGED otherThanSearch

\* Line 478: mid = left + (right - left) / 2.
Mid(l, r) == l + ((r - l) \div 2)

\* Lines 477-486: one round of the while loop of binary_search.
BinarySearchStep ==
    /\ search_pc = "loop"
    /\ search_left <= search_right
    /\ LET mid == Mid(search_left, search_right)
       IN  /\ search_reads' = search_reads \cup {mid}
           /\ \E x \in ReadOf(column_indices, mid) :
                IF x = search_val
                THEN /\ search_return' = x
                     /\ search_pc' = "returned"
                     /\ UNCHANGED <<search_left, search_right>>
                ELSE IF x > search_val
                THEN /\ search_right' = mid - 1
                     /\ UNCHANGED <<search_left, search_return, search_pc>>
                ELSE /\ search_left' = mid + 1
                     /\ UNCHANGED <<search_right, search_return, search_pc>>
    /\ UNCHANGED <<row_offsets, column_indices, search_row, search_val>>
    /\ UNCHANGED otherThanSearch

\* Line 487: the loop has run out; -1 is returned.
BinarySearchFail ==
    /\ search_pc = "loop"
    /\ search_left > search_right
    /\ search_return' = -1
    /\ search_pc' = "returned"
    /\ UNCHANGED <<row_offsets, column_indices, search_row, search_val,
                   search_left, search_right, search_reads>>
    /\ UNCHANGED otherThanSearch

SearchNext ==
    \/ CallBinarySearch
    \/ BinarySearchStep
    \/ BinarySearchFail

SpecBinarySearch == SearchInit /\ [][SearchNext]_vars

\* C19: binary_search, called for a row and a value as build_topk_subgraph
\* does, returns the value when it is among the row's neighbours and -1 when it
\* is not, and reads no array element outside the row's range.
C19_SearchStaysInRow ==
    /\ search_reads \subseteq RowRange(search_row)
    /\ search_pc = "returned" =>
          search_return = (IF search_val \in Neighbours(search_row)
                           THEN search_val ELSE -1)
\* ---------------------------------------------------------------------------
\* Concurrent BFSFunctor::CondEdge calls of one Advance, non-idempotent BFS:
\* the calls interleave at their load and at their atomicMin.
\* ---------------------------------------------------------------------------
CondVertices == 0..(MaxCondNodes - 1)

\* The labels the vertices may carry when the calls are launched.
CondLabels == {0, 1, LabelSentinel(FALSE)}

\* The edges the calls are launched for: one call per edge, MaxCalls at most.
CondEdgeSets ==
    {g \in SUBSET (CondVertices \X CondVertices) :
        Cardinality(g) \in 1..MaxCalls}

\* The source vertex seeded with label 0, any labels elsewhere, and one CondEdge
\* call about to start for every edge of the set.
CondInit ==
    /\ SlicesIdle
    /\ RunTopkIdle
    /\ TopkIdle
    /\ UtilSearchIdle
    /\ PrAdvanceIdle
    /\ AtomicAddIdle
    /\ SalsaIdle
    /\ ProblemIdle
    /\ PrIdle
    /\ IdemIdle
    /\ GatherIdle
    /\ SizesIdle
    /\ RmatIdle
    /\ RandomIdle
    /\ SearchIdle
    /\ MARK_PREDECESSORS \in BOOLEAN
    /\ ENABLE_IDEMPOTENCE = FALSE
    /\ slice_nodes = MaxCondNodes
    /\ src = 0
    /\ labels \in {l \in [CondVertices -> CondLabels] : l[src] = 0}
    /\ preds = IF MARK_PREDECESSORS THEN Filled(slice_nodes, PredSentinel) ELSE << >>
    /\ labels_ptr = IF MARK_PREDECESSORS THEN 3 ELSE 2
    /\ preds_ptr = IF MARK_PREDECESSORS THEN 4 ELSE NULL
    /\ device_allocs = IF MARK_PREDECESSORS THEN 4 ELSE 2
    /\ h_labels = << >>
    /\ h_preds = << >>
    /\ bfs_call = "Reset"
    /\ bfs_retval = cudaSuccess
    /\ bfs_init_ok = TRUE
    /\ reset_ok = TRUE
    /\ bfs_resets = 1
    /\ graph_edges \in CondEdgeSets
    /\ frontier = {e[1] : e \in graph_edges}
    /\ items = [e \in graph_edges |-> [pc |-> "load", new_label |-> 0]]
    /\ out_queue = {}
    /\ bfs_pc = "edges"
    /\ labels_before = labels

\* The calls run to their return value: an item left at "apply" returned true,
\* an item left at "done" returned false.
CondEdgeNext ==
    \/ CondEdgeLoad
    \/ CondEdgeAtomicMin

SpecCondEdge == CondInit /\ [][CondEdgeNext]_vars

\* The calls whose destination is d, and the candidate label of a call.
CallsOn(d) == {e \in DOMAIN items : e[2] = d}

Candidate(e) == items[e].new_label + 1

AllReturned == \A e \in DOMAIN items : items[e].pc \in {"apply", "done"}

ReturnedTrue(e) == items[e].pc = "apply"

\* The least element of a non-empty finite set of integers.
Least(s) == CHOOSE x \in s : \A y \in s : x <= y

\* C21: once every call has returned, labels[d] is the minimum of the value it
\* had before the calls and of the candidate labels of the calls on d; and when
\* the calls on d all carried one candidate label L below that value, exactly
\* one of them returned true.
C21_OneClaimsAndMinimum ==
    AllReturned =>
        \A d \in CondVertices :
            LET on == CallsOn(d)
                cands == {Candidate(e) : e \in on}
            IN  /\ labels[d] = Least({labels_before[d]} \cup cands)
                /\ (Cardinality(cands) = 1 /\ Least(cands) < labels_before[d])
                      => Cardinality({e \in on : ReturnedTrue(e)}) = 1

\* Two calls on one destination with one candidate label have both returned.
C21_Witness ==
    /\ AllReturned
    /\ \E d \in CondVertices :
         /\ Cardinality(CallsOn(d)) >= 2
         /\ Cardinality({Candidate(e) : e \in CallsOn(d)}) = 1
         /\ \A e \in CallsOn(d) : Candidate(e) < labels_before[d]
         /\ \E e \in CallsOn(d) : ~ReturnedTrue(e)
\* ---------------------------------------------------------------------------
\* The range of the labels in a non-idempotent run, checked under SpecBfs.
\* ---------------------------------------------------------------------------
\* Every label is a value of [0, MaxValue<VertexId>() - 1].
LabelsInRange ==
    \A v \in DOMAIN labels : labels[v] \in 0..(MaxValueVertexId - 1)

\* The candidate label of every call that has loaded new_label is a VertexId:
\* new_label + 1 does not pass MaxValue<VertexId>().
CandidateFits ==
    \A e \in DOMAIN items :
        items[e].pc = "min" =>
            /\ items[e].new_label >= 0
            /\ items[e].new_label + 1 <= MaxValueVertexId

NoLabelIncreases ==
    \A v \in DOMAIN labels : labels'[v] <= labels[v]

\* C30: in every state of a non-idempotent run after Reset each label lies in
\* [0, MaxValue<VertexId>() - 1], the candidate label source + 1 computed by
\* CondEdge does not overflow VertexId, and no step increases a label.
C30_LabelsBoundedAndDecreasing ==
    [](LabelsInRange /\ CandidateFits) /\ [][NoLabelIncreases]_vars

\* A call has lowered the label of an unvisited vertex from the sentinel while
\* another call holds its candidate label.
C30_Witness ==
    /\ bfs_pc = "edges"
    /\ \E v \in DOMAIN labels : v # src /\ labels[v] < LabelSentinel(FALSE)
    /\ \E e \in DOMAIN items : items[e].pc = "min" /\ items[e].new_label > 0
\* ---------------------------------------------------------------------------
\* atomicAdd(double *addr, double val), the compare-and-swap loop of
\* device_intrinsics.cuh, called concurrently on one address.
\* A double is held as its bit pattern: the kind (finite, infinite, not a
\* number), the sign bit and the magnitude.  __double_as_longlong and
\* __longlong_as_double carry the pattern over unchanged, so atomicCAS compares
\* patterns, while `assumed != old` compares the doubles.
\* ---------------------------------------------------------------------------
Finite(neg, m) == [k |-> "fin", neg |-> neg, m |-> m]

Infinity(neg) == [k |-> "inf", neg |-> neg, m |-> 0]

NaN == [k |-> "nan", neg |-> FALSE, m |-> 0]

Doubles ==
    {Finite(neg, m) : neg \in BOOLEAN, m \in 0..MaxMagnitude}
        \cup {Infinity(neg) : neg \in BOOLEAN} \cup {NaN}

\* The number a finite double stands for.
ValueOf(a) == IF a.neg THEN -a.m ELSE a.m

\* val + assumed in IEEE arithmetic: NaN propagates, opposite infinities give
\* NaN, a sum beyond the largest magnitude is infinite, an exact zero is +0
\* unless both operands are -0.
DoubleAdd(a, b) ==
    IF a.k = "nan" \/ b.k = "nan" THEN NaN
    ELSE IF a.k = "inf" /\ b.k = "inf"
         THEN (IF a.neg = b.neg THEN a ELSE NaN)
    ELSE IF a.k = "inf" THEN a
    ELSE IF b.k = "inf" THEN b
    ELSE LET sum == ValueOf(a) + ValueOf(b)
         IN  IF sum = 0 THEN Finite(a.neg /\ b.neg, 0)
             ELSE IF Abs(sum) > MaxMagnitude THEN Infinity(sum < 0)
             ELSE Finite(sum < 0, Abs(sum))

\* assumed != old on doubles: NaN differs from everything, itself included, and
\* -0 equals +0.
DoubleNe(a, b) ==
    \/ a.k = "nan"
    \/ b.k = "nan"
    \/ (a # b /\ ~(a.k = "fin" /\ b.k = "fin" /\ a.m = 0 /\ b.m = 0))

Callers == DOMAIN callers

\* Any value in the cell and one call about to start per caller.
AtomicAddInit ==
    /\ SlicesIdle
    /\ RunTopkIdle
    /\ TopkIdle
    /\ UtilSearchIdle
    /\ PrAdvanceIdle
    /\ SalsaIdle
    /\ ProblemIdle
    /\ BfsProblemIdle
    /\ BfsRunIdle
    /\ PrIdle
    /\ IdemIdle
    /\ GatherIdle
    /\ SizesIdle
    /\ RmatIdle
    /\ RandomIdle
    /\ SearchIdle
    /\ CondIdle
    /\ cell \in Doubles
    /\ cell_init = cell
    /\ \E n \in 1..MaxCallers :
         callers \in [1..n -> {[val |-> v, old |-> Finite(FALSE, 0),
                                assumed |-> Finite(FALSE, 0), pc |-> "start",
                                won |-> 0, seen |-> Finite(FALSE, 0),
                                interfered |-> FALSE] : v \in Doubles}]
    /\ order = << >>

\* Line 26: double old = *addr.
AtomicAddReadBy(c) ==
    /\ c \in Callers
    /\ callers[c].pc = "start"
    /\ callers' = [callers EXCEPT ![c].old = cell,
                                  ![c].interfered = FALSE,
                                  ![c].pc = "loop"]
    /\ UNCHANGED <<cell, cell_init, order>>
    /\ UNCHANGED otherThanAtomicAdd

AtomicAddRead == \E c \in Callers : AtomicAddReadBy(c)

\* Another caller's view after caller c has changed the cell.
Interfere(c, swapped) ==
    [x \in Callers |->
        IF x # c /\ swapped THEN [callers[x] EXCEPT !.interfered = TRUE]
        ELSE callers[x]]

\* Lines 27-33, one pass of the do-while: assumed = old; atomicCAS stores
\* val + assumed when the cell holds the pattern of assumed and returns what the
\* cell held; the loop is left when assumed != old is false.
AtomicAddCasBy(c) ==
    /\ c \in Callers
    /\ LET me == callers[c]
           assumed == me.old
           swapped == cell = assumed
           old == cell
           again == DoubleNe(assumed, old)
       IN  /\ me.pc = "loop"
           /\ cell' = IF swapped THEN DoubleAdd(me.val, assumed) ELSE cell
           /\ callers' = [Interfere(c, swapped) EXCEPT
                            ![c] = [me EXCEPT
                                !.assumed = assumed,
                                !.old = old,
                                !.won = IF swapped /\ me.won < 2
                                        THEN me.won + 1 ELSE me.won,
                                !.seen = IF swapped THEN old ELSE me.seen,
                                !.interfered = FALSE,
                                !.pc = IF again THEN "loop" ELSE "returned"]]
           /\ order' = IF swapped /\ me.won = 0 THEN Append(order, c) ELSE order
    /\ UNCHANGED cell_init
    /\ UNCHANGED otherThanAtomicAdd

AtomicAddCas == \E c \in Callers : AtomicAddCasBy(c)

AtomicAddNext ==
    \/ AtomicAddRead
    \/ AtomicAddCas

SpecAtomicAdd == AtomicAddInit /\ [][AtomicAddNext]_vars

\* The callers are threads of the device, each of which keeps running.
SpecAtomicAddFair ==
    /\ SpecAtomicAdd
    /\ \A c \in 1..MaxCallers : WF_vars(AtomicAddReadBy(c) \/ AtomicAddCasBy(c))

RECURSIVE SumInOrder(_, _)
\* The cell after the additions of the callers of the sequence o, in that order.
SumInOrder(start, o) ==
    IF o = << >> THEN start
    ELSE SumInOrder(DoubleAdd(callers[Head(o)].val, start), Tail(o))

AllCallsReturned == \A c \in Callers : callers[c].pc = "returned"

\* Caller c makes a pass of its loop and goes round again.
Repeats(c) == AtomicAddCasBy(c) /\ callers'[c].pc = "loop"

\* C23: every call that has returned added its value exactly once and returns
\* what the cell held just before that addition; when all calls have returned
\* the cell holds its first value plus the addends, in the order the additions
\* took effect; and a call goes round its loop again only when another call's
\* compare-and-swap has succeeded since it last read the cell.
C23_AtomicAddLinearizable ==
    /\ [](\A c \in Callers :
            callers[c].pc = "returned" =>
                callers[c].won = 1 /\ callers[c].old = callers[c].seen)
    /\ [](AllCallsReturned => cell = SumInOrder(cell_init, order))
    /\ [][\A c \in Callers : Repeats(c) => callers[c].interfered]_vars

\* Every call returns.
AtomicAddTerminates == <>AllCallsReturned
\* ---------------------------------------------------------------------------
\* PRFunctor::ApplyEdge called concurrently for the edges of one Advance.
\* Ranks are held in units of 1 / RankScale, as for the Filter; the quotient is
\* rounded down to the grid.
\* ---------------------------------------------------------------------------
\* The edges an Advance is launched for: MaxPrEdges at most.
PrEdgeSets ==
    {g \in SUBSET (PrVertices \X PrVertices) : Cardinality(g) \in 1..MaxPrEdges}

\* d_degrees for the graph g: the number of out-edges of each vertex.
OutDegrees(g) ==
    [v \in PrVertices |-> Cardinality({e \in g : e[1] = v})]

\* Any ranks, rank_next filled with one value (zero or the largest rank), and
\* one ApplyEdge call about to start for every edge.
PrAdvanceInit ==
    /\ SlicesIdle
    /\ RunTopkIdle
    /\ TopkIdle
    /\ UtilSearchIdle
    /\ SalsaIdle
    /\ ProblemIdle
    /\ BfsProblemIdle
    /\ BfsRunIdle
    /\ IdemIdle
    /\ GatherIdle
    /\ SizesIdle
    /\ RmatIdle
    /\ RandomIdle
    /\ SearchIdle
    /\ CondIdle
    /\ AtomicAddIdle
    /\ d_rank_curr \in [PrVertices -> Ranks]
    /\ \E r \in {0, MaxRank} : d_rank_next = [v \in PrVertices |-> r]
    /\ d_delta = 0
    /\ d_threshold = 0
    /\ rank_before = d_rank_next
    /\ pr_todo = {}
    /\ pr_out = {}
    /\ pr_pc = "advance"
    /\ \E g \in PrEdgeSets :
         /\ d_degrees = OutDegrees(g)
         /\ pr_calls = [e \in g |-> [pc |-> "load", addend |-> 0]]

\* The whole rank in place of the rank divided by the degree.
QuotientUndivided(rank, degree) == rank

\* Line 75: problem->d_rank_curr[s_id] / problem->d_degrees[s_id].
Quotient(rank, degree) == rank \div degree

\* ApplyEdge, line 75: the second argument of atomicAdd is evaluated.
PRApplyEdgeLoad ==
    /\ pr_pc = "advance"
    /\ \E e \in DOMAIN pr_calls :
         /\ pr_calls[e].pc = "load"
         /\ pr_calls' = [pr_calls EXCEPT
                           ![e] = [pc |-> "add",
                                   addend |-> Quotient(d_rank_curr[e[1]],
                                                       d_degrees[e[1]])]]
    /\ UNCHANGED <<d_rank_curr, d_rank_next, d_delta, d_threshold, rank_before,
                   pr_todo, pr_out, pr_pc, d_degrees>>
    /\ UNCHANGED otherThanPrAdvance

\* ApplyEdge, line 74: atomicAdd(&problem->d_rank_next[d_id], ...), one step of
\* the memory system.
PRApplyEdgeAtomicAdd ==
    /\ pr_pc = "advance"
    /\ \E e \in DOMAIN pr_calls :
         /\ pr_calls[e].pc = "add"
         /\ d_rank_next' = [d_rank_next EXCEPT
                              ![e[2]] = d_rank_next[e[2]] + pr_calls[e].addend]
         /\ pr_calls' = [pr_calls EXCEPT ![e].pc = "done"]
    /\ UNCHANGED <<d_rank_curr, d_delta, d_threshold, rank_before,
                   pr_todo, pr_out, pr_pc, d_degrees>>
    /\ UNCHANGED otherThanPrAdvance

\* The Advance kernel ends when every call has returned.
PrAdvanceDone ==
    /\ pr_pc = "advance"
    /\ \A e \in DOMAIN pr_calls : pr_calls[e].pc = "done"
    /\ pr_pc' = "advanced"
    /\ UNCHANGED <<d_rank_curr, d_rank_next, d_delta, d_threshold, rank_before,
                   pr_todo, pr_out, d_degrees, pr_calls>>
    /\ UNCHANGED otherThanPrAdvance

PrAdvanceNext ==
    \/ PRApplyEdgeLoad
    \/ PRApplyEdgeAtomicAdd
    \/ PrAdvanceDone

SpecPrAdvance == PrAdvanceInit /\ [][PrAdvanceNext]_vars

RECURSIVE SumOfShares(_)
\* The sum over the edges (s, d) of the set applied of rank_curr[s] / degrees[s].
SumOfShares(applied) ==
    IF applied = {} THEN 0
    ELSE LET e == CHOOSE x \in applied : TRUE
         IN  (d_rank_curr[e[1]] \div d_degrees[e[1]]) + SumOfShares(applied \ {e})

ThreadCounts == (1..31) \cup {Pow2(k) : k \in 5..MaxLogNT}

QueueValues == {0, 1}

SearchKeys == {-1, 0, 1}

\* queue[j] for an index inside the array.
Queue(j) == IF j < bs_split THEN 0 ELSE 1

\* What the comparison queue[j] > i may give: a read outside the NT entries
\* finds any value.
QueueGreater(j) ==
    IF j \in 0..(bs_nt - 1) THEN {Queue(j) > bs_key}
    ELSE {v > bs_key : v \in QueueValues}

\* The distances of the `mid +=` lines that NT compiles in, lines 181-194.
Distances(nt) ==
    (IF nt > 512 THEN <<256>> ELSE << >>)
        \o (IF nt > 256 THEN <<128>> ELSE << >>)
        \o (IF nt > 128 THEN <<64>> ELSE << >>)
        \o (IF nt > 64 THEN <<32>> ELSE << >>)
        \o (IF nt > 32 THEN <<16>> ELSE << >>)
        \o <<8, 4, 2, 1>>

\* A start in the middle of the NT entries.
InitialMidUpper(nt) == nt \div 2

\* Line 179: int mid = ((NT >> 1) - 1).
InitialMid(nt) == (nt \div 2) - 1

UtilSearchInit ==
    /\ SlicesIdle
    /\ RunTopkIdle
    /\ TopkIdle
    /\ SalsaIdle
    /\ ProblemIdle
    /\ BfsProblemIdle
    /\ BfsRunIdle
    /\ PrIdle
    /\ IdemIdle
    /\ GatherIdle
    /\ SizesIdle
    /\ RmatIdle
    /\ RandomIdle
    /\ SearchIdle
    /\ CondIdle
    /\ AtomicAddIdle
    /\ PrAdvanceIdle
    /\ bs_nt \in ThreadCounts
    /\ bs_split \in 0..bs_nt
    /\ bs_key \in SearchKeys
    /\ bs_mid = 0
    /\ bs_steps = << >>
    /\ bs_reads = {}
    /\ bs_return = 0
    /\ bs_pc = "call"

\* Line 179.
UtilBinarySearchCall ==
    /\ bs_pc = "call"
    /\ bs_mid' = InitialMid(bs_nt)
    /\ bs_steps' = Distances(bs_nt)
    /\ bs_pc' = "search"
    /\ UNCHANGED <<bs_nt, bs_split, bs_key, bs_reads, bs_return>>
    /\ UNCHANGED otherThanUtilSearch

\* One of the lines 181-194: mid += (queue[mid] > i) ? -d : d.
UtilBinarySearchStep ==
    /\ bs_pc = "search"
    /\ bs_steps # << >>
    /\ \E greater \in QueueGreater(bs_mid) :
         bs_mid' = IF greater THEN bs_mid - Head(bs_steps)
                   ELSE bs_mid + Head(bs_steps)
    /\ bs_reads' = bs_reads \cup {bs_mid}
    /\ bs_steps' = Tail(bs_steps)
    /\ UNCHANGED <<bs_nt, bs_split, bs_key, bs_return, bs_pc>>
    /\ UNCHANGED otherThanUtilSearch

\* Lines 195-197: mid += (queue[mid] > i) ? 0 : 1; return mid.
UtilBinarySearchReturn ==
    /\ bs_pc = "search"
    /\ bs_steps = << >>
    /\ \E greater \in QueueGreater(bs_mid) :
         /\ bs_mid' = IF greater THEN bs_mid ELSE bs_mid + 1
         /\ bs_return' = bs_mid'
    /\ bs_reads' = bs_reads \cup {bs_mid}
    /\ bs_pc' = "returned"
    /\ UNCHANGED <<bs_nt, bs_split, bs_key, bs_steps>>
    /\ UNCHANGED otherThanUtilSearch

UtilSearchNext ==
    \/ UtilBinarySearchCall
    \/ UtilBinarySearchStep
    \/ UtilBinarySearchReturn

SpecUtilSearch == UtilSearchInit /\ [][UtilSearchNext]_vars

\* The number of entries among queue[0..NT-2] that are <= i.
EntriesUpToKey ==
    Cardinality({j \in 0..(bs_nt - 2) : Queue(j) <= bs_key})

ReadsOutside == \E j \in bs_reads : j \notin 0..(bs_nt - 1)

PowerOfTwo(nt) == \E k \in 0..MaxLogNT : nt = Pow2(k)

\* C24 as stated: for a power of two NT with 32 <= NT <= 1024 the call returns
\* the number of entries among queue[0..NT-2] that are <= i and reads only
\* indices of [0, NT-2]; for NT < 32 the call reads an index outside [0, NT-1].
C24_CountsAndReadsInside ==
    bs_pc = "returned" =>
        /\ (PowerOfTwo(bs_nt) /\ bs_nt >= 32 /\ bs_nt <= 1024) =>
              /\ bs_return = EntriesUpToKey
              /\ bs_reads \subseteq 0..(bs_nt - 2)
        /\ bs_nt < 32 => ReadsOutside

\* C24, amended: the first half as stated; for NT < 32 the call reads an index
\* outside [0, NT-1] when NT <= 14 and when every entry is greater than i.
C24_CountsAndReadsInsideAmended ==
    bs_pc = "returned" =>
        /\ (PowerOfTwo(bs_nt) /\ bs_nt >= 32 /\ bs_nt <= 1024) =>
              /\ bs_return = EntriesUpToKey
              /\ bs_reads \subseteq 0..(bs_nt - 2)
        /\ (bs_nt < 32 /\ (bs_nt <= 14 \/ \A j \in 0..(bs_nt - 1) : Queue(j) > bs_key))
              => ReadsOutside

\* A search of 1024 entries that has returned an index in the middle.
C24_Witness ==
    /\ bs_pc = "returned"
    /\ bs_nt = 1024
    /\ bs_return = 700
    /\ bs_split = 700
    /\ bs_key = 0
\* ---------------------------------------------------------------------------
\* build_topk_subgraph: for every pair of top nodes, binary_search looks for the
\* second among the neighbours of the first; the sub-graph is handed out through
\* pointers into the function's own vectors.
\* ---------------------------------------------------------------------------
\* The top nodes: top_nodes vertex ids of the graph.
NodeIdLists(n) ==
    UNION {[0..(k - 1) -> 0..(n - 1)] : k \in 0..Min(n, MaxTopNodes)}

TopkInit ==
    /\ SlicesIdle
    /\ RunTopkIdle
    /\ SalsaIdle
    /\ ProblemIdle
    /\ BfsProblemIdle
    /\ BfsRunIdle
    /\ PrIdle
    /\ IdemIdle
    /\ GatherIdle
    /\ SizesIdle
    /\ RmatIdle
    /\ RandomIdle
    /\ CondIdle
    /\ AtomicAddIdle
    /\ PrAdvanceIdle
    /\ UtilSearchIdle
    /\ \E n \in 1..MaxCsrNodes :
       \E adj \in [0..(n - 1) -> SUBSET (0..(n - 1))] :
        /\ Len(Concatenated(adj, n)) <= MaxCsrEdges
        /\ row_offsets = RowOffsets(adj, n)
        /\ column_indices = ColumnIndices(adj, n)
        /\ node_ids \in NodeIdLists(n)
    /\ top_nodes = Cardinality(DOMAIN node_ids)
    /\ search_row = 0
    /\ search_val = 0
    /\ search_left = 0
    /\ search_right = 0
    /\ search_return = 0
    /\ search_reads = {}
    /\ search_pc = "idle"
    /\ tk_i = 0
    /\ tk_j = 0
    /\ search_count = 0
    /\ sub_row_offsets = << >>
    /\ sub_col_indices = << >>
    /\ subgraph = [num_nodes |-> 0, num_edges |-> 0,
                   row_offsets |-> << >>, col_indices |-> << >>]
    /\ tk_pc = "start"

\* Lines 507-514: the locals; sub_row_offsets.push_back(0).
TopkStart ==
    /\ tk_pc = "start"
    /\ sub_row_offsets' = <<0>>
    /\ tk_pc' = "loop"
    /\ UNCHANGED <<node_ids, top_nodes, tk_i, tk_j, search_count,
                   sub_col_indices, subgraph>>
    /\ UNCHANGED searchVars
    /\ UNCHANGED otherThanTopk

\* Lines 529-532: binary_search is called for row node_ids[i] and value
\* node_ids[j].
TopkCallSearch ==
    /\ tk_pc = "loop"
    /\ tk_i < top_nodes
    /\ tk_j < top_nodes
    /\ search_row' = node_ids[tk_i]
    /\ search_val' = node_ids[tk_j]
    /\ search_reads' = {}
    /\ search_pc' = "call"
    /\ tk_pc' = "searching"
    /\ UNCHANGED <<row_offsets, column_indices, search_left, search_right,
                   search_return>>
    /\ UNCHANGED <<node_ids, top_nodes, tk_i, tk_j, search_count,
                   sub_row_offsets, sub_col_indices, subgraph>>
    /\ UNCHANGED otherThanTopk

\* std::find(node_ids_vec.begin(), node_ids_vec.end(), x) - begin(): the first
\* index that holds x, and the size of the vector when none does.
Find(vec, x) ==
    IF \E k \in DOMAIN vec : vec[k] = x
    THEN CHOOSE k \in DOMAIN vec : vec[k] = x /\ \A l \in DOMAIN vec : vec[l] = x => k <= l
    ELSE Cardinality(DOMAIN vec)

\* Lines 534-541, then ++j: a value that was found is counted and its position
\* among the top nodes is pushed on sub_col_indices.
TopkFilter ==
    /\ tk_pc = "searching"
    /\ search_pc = "returned"
    /\ IF search_return # -1
       THEN /\ search_count' = search_count + 1
            /\ sub_col_indices' = Append(sub_col_indices, Find(node_ids, search_return))
       ELSE UNCHANGED <<search_count, sub_col_indices>>
    /\ tk_j' = tk_j + 1
    /\ tk_pc' = "loop"
    /\ UNCHANGED <<node_ids, top_nodes, tk_i, sub_row_offsets, subgraph>>
    /\ UNCHANGED searchVars
    /\ UNCHANGED otherThanTopk

\* Lines 544-546, then ++i: the row's count is added to the last offset and
\* pushed on sub_row_offsets.
TopkRowDone ==
    /\ tk_pc = "loop"
    /\ tk_i < top_nodes
    /\ tk_j = top_nodes
    /\ sub_row_offsets' = Append(sub_row_offsets,
                              search_count + sub_row_offsets[Len(sub_row_offsets)])
    /\ search_count' = 0
    /\ tk_i' = tk_i + 1
    /\ tk_j' = 0
    /\ UNCHANGED <<node_ids, top_nodes, sub_col_indices, subgraph, tk_pc>>
    /\ UNCHANGED searchVars
    /\ UNCHANGED otherThanTopk

\* What a read through a pointer into a vector that has been destroyed may
\* find: what the vector held, or anything else.
Destroyed(vec) ==
    {vec} \cup {[k \in DOMAIN vec |-> g] : g \in {-1, Len(vec) + 1}}

\* Lines 550-573: num_nodes and num_edges are set, row_offsets and col_indices
\* are set to &sub_row_offsets[0] and &sub_col_indices[0], the vectors are
\* cleared and, on return, destroyed.
TopkReturn ==
    /\ tk_pc = "loop"
    /\ tk_i = top_nodes
    /\ \E ro \in Destroyed(sub_row_offsets), ci \in Destroyed(sub_col_indices) :
         subgraph' = [num_nodes |-> top_nodes,
                      num_edges |-> Len(sub_col_indices),
                      row_offsets |-> ro,
                      col_indices |-> ci]
    /\ sub_row_offsets' = << >>
    /\ sub_col_indices' = << >>
    /\ tk_pc' = "returned"
    /\ UNCHANGED <<node_ids, top_nodes, tk_i, tk_j, search_count>>
    /\ UNCHANGED searchVars
    /\ UNCHANGED otherThanTopk

TopkNext ==
    \/ TopkStart
    \/ TopkCallSearch
    \/ CallBinarySearch
    \/ BinarySearchStep
    \/ BinarySearchFail
    \/ TopkFilter
    \/ TopkRowDone
    \/ TopkReturn

SpecTopkSubgraph == TopkInit /\ [][TopkNext]_vars

\* A CSR of n rows: offsets start at 0, do not decrease and end at the number
\* of column indices, and every column is a row.
WellFormedCsr(n, offsets, columns) ==
    /\ Len(offsets) = n + 1
    /\ offsets[1] = 0
    /\ \A r \in 1..n : offsets[r] <= offsets[r + 1]
    /\ offsets[n + 1] = Len(columns)
    /\ \A k \in 1..Len(columns) : columns[k] \in 0..(n - 1)

\* C25: the sub-graph build_topk_subgraph hands out is a well-formed CSR:
\* row_offsets has top_nodes + 1 entries, starts at 0, does not decrease and
\* ends at num_edges, the number of col_indices entries, and every col index
\* lies in [0, top_nodes).
C25_SubgraphWellFormed ==
    tk_pc = "returned" =>
        /\ subgraph.num_nodes = top_nodes
        /\ subgraph.num_edges = Len(subgraph.col_indices)
        /\ WellFormedCsr(subgraph.num_nodes, subgraph.row_offsets,
                         subgraph.col_indices)

\* The vectors hold a well-formed CSR when the loops have ended.
VectorsWellFormed ==
    (tk_pc = "loop" /\ tk_i = top_nodes) =>
        WellFormedCsr(top_nodes, sub_row_offsets, sub_col_indices)
\* ---------------------------------------------------------------------------
\* run_topk: Init, Reset, Enact, Extract, then build_topk_subgraph.
\* TOPKProblem and TOPKEnactor are not part of the sources at hand: each of
\* their calls is a stage that returns cudaSuccess or an error.
\* ---------------------------------------------------------------------------
TopkStages == <<"Init", "Reset", "Enact", "Extract", "build_topk_subgraph">>

\* The stages whose result is handed to util::GRError, lines 603-613.
CheckedStages == {"Init", "Reset", "Enact", "Extract"}

StageErrors == {cudaSuccess, cudaErrorMemoryAllocation, cudaErrorLaunchFailure}

RunTopkInit ==
    /\ SlicesIdle
    /\ SalsaIdle
    /\ ProblemIdle
    /\ BfsProblemIdle
    /\ BfsRunIdle
    /\ PrIdle
    /\ IdemIdle
    /\ GatherIdle
    /\ SizesIdle
    /\ RmatIdle
    /\ RandomIdle
    /\ SearchIdle
    /\ CondIdle
    /\ AtomicAddIdle
    /\ PrAdvanceIdle
    /\ UtilSearchIdle
    /\ TopkIdle
    /\ rt_nodes \in 1..MaxCsrNodes
    /\ rt_top_nodes \in 0..(MaxTopNodes + 2)
    /\ rt_next = 0
    /\ rt_log = << >>
    /\ rt_retvals = << >>

\* Lines 600-601: top_nodes is cut down to the number of vertices.
RunTopkClamp ==
    /\ rt_next = 0
    /\ rt_top_nodes' = IF rt_top_nodes > rt_nodes THEN rt_nodes ELSE rt_top_nodes
    /\ rt_next' = 1
    /\ UNCHANGED <<rt_nodes, rt_log, rt_retvals>>
    /\ UNCHANGED otherThanRunTopk

\* Lines 603-613: problem->Init, problem->Reset, enactor.Enact, problem->Extract.
\* The stage's result goes to util::GRError, whose own result is dropped: the
\* next statement follows whatever the stage returned.
RunTopkStage ==
    /\ rt_next \in 1..4
    /\ \E code \in StageErrors :
         rt_retvals' = Append(rt_retvals, code)
    /\ rt_log' = Append(rt_log, TopkStages[rt_next])
    /\ rt_next' = rt_next + 1
    /\ UNCHANGED <<rt_nodes, rt_top_nodes>>
    /\ UNCHANGED otherThanRunTopk

\* Lines 616-617: build_topk_subgraph, which returns nothing.
RunTopkBuild ==
    /\ rt_next = 5
    /\ rt_log' = Append(rt_log, TopkStages[rt_next])
    /\ rt_next' = rt_next + 1
    /\ UNCHANGED <<rt_nodes, rt_top_nodes, rt_retvals>>
    /\ UNCHANGED otherThanRunTopk

RunTopkNext ==
    \/ RunTopkClamp
    \/ RunTopkStage
    \/ RunTopkBuild

SpecRunTopk == RunTopkInit /\ [][RunTopkNext]_vars

\* The stages run in the order Init, Reset, Enact, Extract, sub-graph build.
StagesInOrder ==
    /\ Len(rt_log) <= Len(TopkStages)
    /\ \A k \in 1..Len(rt_log) : rt_log[k] = TopkStages[k]

\* C26: the stages of run_topk run in the order Init, Reset, Enact, Extract,
\* sub-graph build, and no stage runs after a stage that returned an error.
C26_StopsAtFirstFailure ==
    /\ StagesInOrder
    /\ \A k \in 1..Len(rt_retvals) :
          rt_retvals[k] # cudaSuccess => Len(rt_log) = k

(***************************************************************************)
(* HITSProblem / BCProblem: the slice arrays Init builds for _num_gpus     *)
(* GPUs and the elements Reset writes (hits_problem.cuh).                  *)
(***************************************************************************)
\* The numbers of GPUs Init is called with.
GpuCounts == 0..MaxGpus

\* `new DataSlice *[num_gpus]`, lines 235-236 and 738-739: an array of n
\* pointers, none of them assigned.
NewPointers(n) == [i \in 1..n |-> "garbage"]

\* The source vertices Reset is called with: a vertex of the graph, or the -1
\* that the comment on BCProblem::Reset (lines 835-836) allows.
Sources(n) == (0 - 1)..(n - 1)

\* A DataSlice all of whose arrays are allocated, as after an Init that
\* returned cudaSuccess for one GPU.
AllocatedSlice(k) == [fld \in Fields(k) |-> NULL + 1]

\* The arrays the kernels of Reset's loop fill, elements 0 .. nodes - 1
\* (lines 431-451 and 878-953).
MemsetFields(k) ==
    IF k = "HITS"
    THEN {"d_hrank_curr", "d_arank_curr", "d_hrank_next", "d_arank_next",
          "d_out_degrees", "d_in_degrees"}
    ELSE {"d_labels", "d_preds", "d_deltas", "d_sigmas"}

\* The element a copy of Reset's tail writes (lines 464-483 and 965-994).
TailTarget(c, s) ==
    CASE c = "d_hrank_curr + src" -> <<"d_hrank_curr", s>>
      [] c = "d_labels + src" -> <<"d_labels", s>>
      [] c = "d_preds + src" -> <<"d_preds", s>>
      [] c = "d_sigmas + src" -> <<"d_sigmas", s>>
      [] OTHER -> <<c, 0>>

SlicesInit ==
    /\ SalsaIdle
    /\ ProblemIdle
    /\ BfsProblemIdle
    /\ BfsRunIdle
    /\ PrIdle
    /\ IdemIdle
    /\ GatherIdle
    /\ SizesIdle
    /\ RmatIdle
    /\ RandomIdle
    /\ SearchIdle
    /\ CondIdle
    /\ AtomicAddIdle
    /\ PrAdvanceIdle
    /\ UtilSearchIdle
    /\ TopkIdle
    /\ RunTopkIdle
    /\ SlicesIdle

\* Init, lines 234-320 (HITSProblem) and 737-829 (BCProblem), called with n
\* GPUs on a graph of nd vertices; its f-th checked call fails (0: none does).
\* For n <= 1 it allocates gpu_idx and writes gpu_idx[0], data_slices[0] and
\* d_data_slices[0]; for n > 1 it does nothing and returns cudaSuccess.
SlicesProblemInit ==
    /\ sl_call = "none"
    /\ \E k \in {"HITS", "BC"}, n \in GpuCounts, nd \in 0..MaxResetNodes :
       \E f \in 0..(IF n <= 1 THEN Len(InitCalls(k)) ELSE 0) :
         /\ sl_kind' = k
         /\ sl_num_gpus' = n
         /\ sl_nodes' = nd
         /\ gpu_idx' = IF n > 1 THEN << >>
                       ELSE IF f = 1 THEN <<"garbage">> ELSE <<"set">>
         /\ sl_data_slices' =
               IF n = 1 /\ f # 1 THEN <<"slice">> ELSE NewPointers(n)
         /\ sl_d_data_slices' =
               IF n = 1 /\ f \notin {1, 2} THEN <<"slice">> ELSE NewPointers(n)
         /\ sl_outside' =
               IF n = 0 /\ f # 1
               THEN {"data_slices[0]", "d_data_slices[0]"}
               ELSE {}
         /\ sl_allocated' =
               IF n > 1 THEN {}
               ELSE {fld \in Fields(k) \ (IF k = "HITS" THEN {"d_labels"} ELSE {}) :
                        f = 0 \/ Index(InitOrder[k], fld) + 2 < f}
         /\ sl_ret' = IF f = 0 THEN cudaSuccess ELSE ErrorOf(InitCalls(k)[f])
    /\ sl_call' = "Init"
    /\ UNCHANGED <<sl_src, sl_writes, sl_deref>>
    /\ UNCHANGED otherThanSlices

\* The slices Reset reads through: data_slices[gpu] for every gpu of its loop
\* (lines 345-460 and 862-961), and data_slices[0] in the copies after it.
SlicesRead(n, f) ==
    {g \in 0..(n - 1) : g = 0 \/ f = 0 \/ f > 2} \cup (IF n = 0 THEN {0} ELSE {})

\* Reset, lines 334-490 (HITSProblem) and 845-997 (BCProblem), after an Init
\* that returned cudaSuccess; its f-th checked call fails (0: none does).  A
\* read through a pointer that was never assigned is undefined: what Reset
\* then writes and returns is not determined.
SlicesProblemReset ==
    /\ sl_call = "Init"
    /\ sl_ret = cudaSuccess
    /\ \E s \in Sources(sl_nodes),
          f \in 0..Len(ResetCalls(sl_kind, AllocatedSlice(sl_kind))) :
         LET tail == ResetTail(sl_kind)
             read == SlicesRead(sl_num_gpus, f)
             wild == {g \in read : g + 1 > Len(sl_data_slices)
                                   \/ sl_data_slices[g + 1] = "garbage"}
         IN  /\ sl_src' = s
             /\ sl_deref' = wild
             /\ IF wild # {}
                THEN /\ sl_writes' = {}
                     /\ sl_ret' \in {cudaSuccess, cudaErrorLaunchFailure}
                ELSE /\ sl_writes' =
                          (IF f = 1 THEN {}
                           ELSE MemsetFields(sl_kind) \X (0..(sl_nodes - 1)))
                          \cup {TailTarget(tail[i], s) :
                                  i \in {j \in 1..Len(tail) : f = 0 \/ f > 2 + j}}
                     /\ sl_ret' = IF f = 0 THEN cudaSuccess
                                  ELSE ErrorOf(ResetCalls(sl_kind,
                                                   AllocatedSlice(sl_kind))[f])
    /\ sl_call' = "Reset"
    /\ UNCHANGED <<sl_kind, sl_num_gpus, sl_nodes, gpu_idx, sl_data_slices,
                   sl_d_data_slices, sl_outside, sl_allocated>>
    /\ UNCHANGED otherThanSlices

SlicesNext ==
    \/ SlicesProblemInit
    \/ SlicesProblemReset

SpecSlices == SlicesInit /\ [][SlicesNext]_vars

(***************************************************************************)
(* Claims about the slice arrays and Reset's writes, under SpecSlices.     *)
(***************************************************************************)
\* The per-vertex arrays, each of `nodes` elements.
PerVertex == {"d_hrank_curr", "d_labels", "d_preds", "d_sigmas"}

\* C27: for every source vertex Reset may be given, the -1 of the
\* BCProblem::Reset comment included, HITSProblem::Reset and BCProblem::Reset
\* write the per-vertex arrays (ranks, labels, preds, sigmas) only at indices
\* within [0, nodes).
C27_ResetWritesInside ==
    \A w \in sl_writes :
        w[1] \in PerVertex => w[2] \in 0..(sl_nodes - 1)

\* With a source that is a vertex of the graph, Reset writes inside the arrays.
ResetWritesInsideForVertices ==
    sl_src \in 0..(sl_nodes - 1) => C27_ResetWritesInside

\* C28: after Init has returned cudaSuccess for a number of GPUs >= 0, there
\* are exactly num_gpus data slices, each with its gpu_idx entry set and all
\* its arrays allocated, nothing was written outside data_slices and
\* d_data_slices, and a following Reset reads only through initialized slices.
C28_SlicesInitialised ==
    /\ (sl_call = "Init" /\ sl_ret = cudaSuccess) =>
          /\ Len(sl_data_slices) = sl_num_gpus
          /\ \A g \in 1..sl_num_gpus :
                /\ sl_data_slices[g] = "slice"
                /\ sl_d_data_slices[g] = "slice"
                /\ g \in DOMAIN gpu_idx /\ gpu_idx[g] = "set"
          /\ sl_num_gpus > 0 =>
                sl_allocated = {InitOrder[sl_kind][i] :
                                   i \in 1..Len(InitOrder[sl_kind])}
          /\ sl_outside = {}
    /\ sl_call = "Reset" => sl_deref = {}

\* With exactly one GPU the slice is complete after a successful Init.
OneGpuSliceInitialised ==
    sl_num_gpus = 1 => C28_SlicesInitialised

====
